---- MODULE Spec2Model ----
(***************************************************************************)
(* Model of the jetstream codec (rwl/jetstream): the Simple-8b word codec, *)
(* the 32-bit varint codec, the zig-zag map, the incremental Encoder and   *)
(* the Decoder.                                                            *)
(*                                                                         *)
(* Machine words wider than 31 bits do not fit the model checker's         *)
(* integers, so u32 and u64 values are bit vectors: sequences over {0,1},  *)
(* least significant bit first (element k+1 is bit k).  i32 values are     *)
(* integers in -2^31 .. 2^31-1 and bytes are integers in 0..255.           *)
(***************************************************************************)
EXTENDS Integers, Sequences, FiniteSets, TLC

(***************************************************************************)
(* Bounds of the model.                                                    *)
(***************************************************************************)
\* total number of Encoder::encode calls in one run of the codec system
MaxSamples == 5
\* number of times a sample may differ from the sample fed before it
MaxChanges == 2
\* the number of end_encode and cancel_encode calls a caller makes
MaxEnds == 1
\* simple8b: the number of single values and of runs of ones in an array
MaxValues == 2
MaxRuns == 2
\* the number of encode calls on the stream with long messages
MaxLongSamples == 2
\* the number of well-formed samples passed around a malformed one
MaxBefore == 2
\* the samples per message of the stream whose samples all differ
MaxVarying == 6

\* bytes of a payload given to the loops of decode_to_buffer
MaxBody == 3

\* encode calls on a stream of two variables in Simple-8b mode
MaxPacked == 17

\* changes of the sample value on such a stream
MaxPackedChanges == 1

\* calls of next() on one streaming simple8b Decoder
MaxNext == 240
\* create_spatial_refs: the number of variables and of voltage or current phases
MaxCount == 12
MaxPhases == 3
\* the number of bytes of a varint chain handed to uvarint32
MaxChain == 11

(***************************************************************************)
(* Program constants, src/src/jetstream.rs.                                *)
(***************************************************************************)
SIMPLE8B_THRESHOLD_SAMPLES == 16
DEFAULT_DELTA_ENCODING_LAYERS == 3
HIGH_DELTA_ENCODING_LAYERS == 3
MAX_HEADER_SIZE == 36
USE_GZIP_THRESHOLD_SAMPLES == 4096

(***************************************************************************)
(* Evaluation helpers.  The model checker re-evaluates an operator         *)
(* argument at each use and keeps a function constructor unevaluated, so   *)
(* Bind(e, F) evaluates e once and hands its value to F, and Vec(f) turns  *)
(* the function f on 1..n into a stored sequence.                          *)
(***************************************************************************)
Bind(e, F(_)) == CHOOSE r \in {F(v) : v \in {e}} : TRUE

Vec(f) == f \o << >>

(***************************************************************************)
(* Bit vectors.                                                            *)
(***************************************************************************)
Zeros(n) == Vec([i \in 1..n |-> 0])

\* n is a natural below 2^31
NatToBits(n0, w) ==
    Bind(n0, LAMBDA n : Vec([i \in 1..w |-> IF i > 31 THEN 0 ELSE (n \div (2^(i-1))) % 2]))

U32(n) == NatToBits(n, 32)

U64(n) == NatToBits(n, 64)

\* the value of the bits lo+1 .. hi of b, known to be below 2^31
RECURSIVE BitsToNatFrom(_, _, _)
BitsToNatFrom(b, lo, hi) ==
    IF lo >= hi THEN 0 ELSE b[lo+1] + 2 * BitsToNatFrom(b, lo + 1, hi)

\* the value of a bit vector, known to be below 2^31
BitsToNat(b0) == Bind(b0, LAMBDA b : BitsToNatFrom(b, 0, Len(b)))

\* TRUE iff the vector holds a value >= 2^k
AtLeastPow2(b0, k) == \E b \in {b0} : \E i \in (k+1)..Len(b) : b[i] = 1

XorBits(a0, b0) ==
    Bind(a0, LAMBDA a : Bind(b0, LAMBDA b : Vec([i \in 1..Len(a) |-> (a[i] + b[i]) % 2])))

OrBits(a0, b0) ==
    Bind(a0, LAMBDA a : Bind(b0, LAMBDA b :
        Vec([i \in 1..Len(a) |-> IF a[i] + b[i] > 0 THEN 1 ELSE 0])))

AndBits(a0, b0) ==
    Bind(a0, LAMBDA a : Bind(b0, LAMBDA b : Vec([i \in 1..Len(a) |-> a[i] * b[i]])))

NotBits(a0) == Bind(a0, LAMBDA a : Vec([i \in 1..Len(a) |-> 1 - a[i]]))

\* a << k and a >> k (logical) at the width of a
Shl(a0, k) == Bind(a0, LAMBDA a : Vec([i \in 1..Len(a) |-> IF i <= k THEN 0 ELSE a[i-k]]))

Shr(a0, k) ==
    Bind(a0, LAMBDA a : Vec([i \in 1..Len(a) |-> IF i + k <= Len(a) THEN a[i+k] ELSE 0]))

\* unsigned comparison a < b of vectors of one width
LtBits(a0, b0) ==
    \E a \in {a0}, b \in {b0} :
        \E i \in 1..Len(a) : a[i] < b[i] /\ \A j \in (i+1)..Len(a) : a[j] = b[j]

(***************************************************************************)
(* i32 values.                                                             *)
(***************************************************************************)
MinI32 == -2147483647 - 1

MaxI32 == -(MinI32 + 1)

\* x as u32
I32ToBits(x0) ==
    Bind(x0, LAMBDA x :
        IF x >= 0 THEN NatToBits(x, 32)
        ELSE Vec([i \in 1..32 |-> IF i = 32 THEN 1 ELSE ((x - MinI32) \div (2^(i-1))) % 2]))

\* the low 32 bits of b as i32
BitsToI32(b0) ==
    Bind(b0, LAMBDA b :
        IF b[32] = 1 THEN BitsToNatFrom(b, 0, 31) + MinI32 ELSE BitsToNatFrom(b, 0, 31))

\* x as i64 as u64: sign extension of an i32
I32ToBits64(x) ==
    Bind(I32ToBits(x), LAMBDA b : Vec([i \in 1..64 |-> IF i <= 32 THEN b[i] ELSE b[32]]))

\* a + b does not fit an i32
AddOverflows(a, b) ==
    \/ a >= 0 /\ b >= 0 /\ a > MaxI32 - b
    \/ a < 0 /\ b < 0 /\ a < MinI32 - b

\* a + b modulo 2^32 (two's complement)
WrappingAdd(a0, b0) ==
    Bind(a0, LAMBDA a : Bind(b0, LAMBDA b :
        IF a >= 0 /\ b >= 0 /\ a > MaxI32 - b THEN (a + MinI32) + (b + MinI32)
        ELSE IF a < 0 /\ b < 0 /\ a < MinI32 - b THEN (a - MinI32) + (b - MinI32)
        ELSE a + b))

\* a - b does not fit an i32
SubOverflows(a, b) ==
    \/ a >= 0 /\ b < 0 /\ a > MaxI32 + b
    \/ a < 0 /\ b > 0 /\ a < MinI32 + b

\* a - b modulo 2^32 (two's complement)
WrappingSub(a, b0) ==
    Bind(b0, LAMBDA b : IF b = MinI32 THEN WrappingAdd(a, MinI32) ELSE WrappingAdd(a, -b))

Xor32(a, b) == BitsToI32(XorBits(I32ToBits(a), I32ToBits(b)))

(***************************************************************************)
(* bitops.rs: the zig-zag map.                                             *)
(***************************************************************************)
\* ((x << 1) as u64 ^ ((x as i64) >> 63) as u64): x is the 64-bit pattern
zig_zag_encode64(x0) ==
    Bind(x0, LAMBDA x : XorBits(Shl(x, 1), Vec([i \in 1..64 |-> x[64]])))

\* a zig_zag_decode64 without the sign term
zig_zag_decode64_drops_sign(v) == Shr(v, 1)

\* ((v >> 1) ^ ((((v & 1) as i64) << 63) >> 63) as u64)
zig_zag_decode64(v0) ==
    Bind(v0, LAMBDA v : XorBits(Shr(v, 1), Vec([i \in 1..64 |-> v[1]])))

(***************************************************************************)
(* jetstream.rs: the 32-bit varint codec.                                  *)
(***************************************************************************)
\* the bytes put_uvarint32 writes for the u32 x; their number is its result
RECURSIVE put_uvarint32(_)
put_uvarint32(x0) ==
    Bind(x0, LAMBDA x :
        IF AtLeastPow2(x, 7)
        THEN <<BitsToNatFrom(x, 0, 7) + 128>> \o put_uvarint32(Shr(x, 7))
        ELSE <<BitsToNatFrom(x, 0, 8)>>)

\* a put_varint32 that leaves out `ux = !ux`
put_varint32_keeps_sign(x) == put_uvarint32(Shl(I32ToBits(x), 1))

\* the bytes put_varint32 writes for the i32 x
put_varint32(x0) ==
    Bind(x0, LAMBDA x :
        Bind(Shl(I32ToBits(x), 1), LAMBDA ux :
            put_uvarint32(IF x < 0 THEN NotBits(ux) ELSE ux)))

\* uvarint32: [val |-> the u32 read, n |-> bytes consumed, panic |-> aborted].
\* A byte below 0x80 at index i ends the value; the shift amount s = 7*i
\* reaches the width of u32 at i >= 5, where `(b as u32) << s` aborts when
\* the build checks overflow and shifts by s mod 32 when it does not.
RECURSIVE uvarint32_loop(_, _, _, _)
uvarint32_loop(buf, i, x0, checks) ==
    IF i >= Len(buf) THEN [val |-> U32(0), n |-> 0, panic |-> FALSE]
    ELSE Bind(x0, LAMBDA x :
         LET b == buf[i+1]
             s == 7 * i
             sh == IF s >= 32 THEN s % 32 ELSE s
         IN  IF b < 128
             THEN IF i > 9 \/ (i = 9 /\ b > 1) \/ (s >= 32 /\ checks)
                  THEN [val |-> U32(0), n |-> 0, panic |-> TRUE]
                  ELSE [val |-> OrBits(x, Shl(U32(b), sh)), n |-> i + 1, panic |-> FALSE]
             ELSE IF s >= 32 /\ checks
                  THEN [val |-> U32(0), n |-> 0, panic |-> TRUE]
                  ELSE uvarint32_loop(buf, i + 1, OrBits(x, Shl(U32(b % 128), sh)), checks))

uvarint32(buf0, checks) == Bind(buf0, LAMBDA buf : uvarint32_loop(buf, 0, U32(0), checks))

\* varint32: the zig-zag inverse of uvarint32's value, as an i32
varint32(buf, checks) ==
    Bind(uvarint32(buf, checks), LAMBDA r :
        Bind(Shr(r.val, 1), LAMBDA x :
            [val |-> BitsToI32(IF r.val[1] = 1 THEN NotBits(x) ELSE x),
             n |-> r.n, panic |-> r.panic]))

(***************************************************************************)
(* encoding/simple8b.rs                                                    *)
(***************************************************************************)
\* SELECTOR[sel+1]: the number of values and the bits per value of selector sel
SELECTOR ==
    << [n |-> 240, bit |-> 0], [n |-> 120, bit |-> 0], [n |-> 60, bit |-> 1],
       [n |-> 30, bit |-> 2],  [n |-> 20, bit |-> 3],  [n |-> 15, bit |-> 4],
       [n |-> 12, bit |-> 5],  [n |-> 10, bit |-> 6],  [n |-> 8, bit |-> 7],
       [n |-> 7, bit |-> 8],   [n |-> 6, bit |-> 10],  [n |-> 5, bit |-> 12],
       [n |-> 4, bit |-> 15],  [n |-> 3, bit |-> 20],  [n |-> 2, bit |-> 30],
       [n |-> 1, bit |-> 60] >>

\* u64::to_be_bytes and u64::from_be_bytes
to_be_bytes(w0) ==
    Bind(w0, LAMBDA w : Vec([k \in 1..8 |-> BitsToNatFrom(w, 64 - 8*k, 72 - 8*k)]))

from_be_bytes(bs0) ==
    Bind(bs0, LAMBDA bs :
        Vec([i \in 1..64 |-> (bs[8 - ((i-1) \div 8)] \div (2^((i-1) % 8))) % 2]))

\* can_pack: n elements of src can be stored using `bits` bits each.  With
\* bits = 0 the loop runs over the whole of src, not over its first n elements.
can_pack(src0, n, bits) ==
    \E src \in {src0} :
        IF Len(src) < n THEN FALSE
        ELSE IF bits = 0 THEN \A i \in 1..Len(src) : src[i] = U64(1)
        ELSE \A i \in 1..n : ~AtLeastPow2(src[i], bits)

\* a packing that stores the last value in the lowest bits
pack_last_first(sel, src0) ==
    Bind(src0, LAMBDA src :
        LET n == SELECTOR[sel+1].n
            b == SELECTOR[sel+1].bit
            s == NatToBits(sel, 4)
        IN  Vec([i \in 1..64 |->
                IF \/ i > 60 /\ s[i-60] = 1
                   \/ \E k \in 0..(n-1) : i - k*b >= 1 /\ src[n - k][i - k*b] = 1
                THEN 1 ELSE 0]))

\* pack60 .. pack1: selector << 60 | src[0] | src[1] << bits | ...
pack(sel, src0) ==
    Bind(src0, LAMBDA src :
        LET n == SELECTOR[sel+1].n
            b == SELECTOR[sel+1].bit
            s == NatToBits(sel, 4)
        IN  Vec([i \in 1..64 |->
                IF \/ i > 60 /\ s[i-60] = 1
                   \/ \E k \in 0..(n-1) : i - k*b >= 1 /\ src[k+1][i - k*b] = 1
                THEN 1 ELSE 0]))

\* the first selector of the if-chain that accepts `remaining`; 16 if none does
first_selector(remaining0) ==
    Bind(remaining0, LAMBDA remaining :
        Bind({s \in 0..15 : can_pack(remaining, SELECTOR[s+1].n, SELECTOR[s+1].bit)},
             LAMBDA ok : IF ok = {} THEN 16 ELSE CHOOSE s \in ok : \A r \in ok : s <= r))

\* the word the chosen branch stores in dst[j]
branch_word(sel, remaining) ==
    IF sel = 0 THEN U64(0)
    ELSE IF sel = 1 THEN Shl(U64(1), 60)
    ELSE pack(sel, SubSeq(remaining, 1, SELECTOR[sel+1].n))

\* n more passes of the loop of encode_all and encode_all_ref, or as many as
\* it makes: st = [i |-> the position, steps |-> the position and the selector
\* of each pass so far, selector 16 where no branch accepted]
RECURSIVE encode_passes(_, _, _)
encode_passes(src, st0, n) ==
    Bind(st0, LAMBDA st :
        IF n <= 0 \/ st.i >= Len(src) \/ st.stop THEN st
        ELSE IF n = 1
             THEN Bind(first_selector(SubSeq(src, st.i + 1, Len(src))), LAMBDA sel :
                    [i |-> IF sel = 16 THEN st.i ELSE st.i + SELECTOR[sel+1].n,
                     steps |-> Append(st.steps, [i |-> st.i, sel |-> sel]),
                     stop |-> sel = 16])
        ELSE encode_passes(src, encode_passes(src, st, n \div 2), n - n \div 2))

\* the passes of the loop from position i on
encode_steps(src, i) ==
    encode_passes(src, [i |-> i, steps |-> << >>, stop |-> FALSE], Len(src) - i).steps

\* the loop of encode_all and encode_all_ref from position i on:
\* [ok |-> no "value out of bounds", words |-> the words stored in dst]
encode_loop(src, i0) ==
    Bind(encode_steps(src, i0), LAMBDA steps :
        LET ok == steps = << >> \/ steps[Len(steps)].sel # 16
        IN  [ok |-> ok,
             words |-> Vec([k \in 1..(IF ok THEN Len(steps) ELSE Len(steps) - 1) |->
                            branch_word(steps[k].sel,
                                        SubSeq(src, steps[k].i + 1, Len(src)))])])

\* encode_all: Ok(words) or Err("value out of bounds")
encode_all(src0) == Bind(src0, LAMBDA src : encode_loop(src, 0))

\* encode_all_ref: [ok, n |-> words written (0 after unwrap_or(0) on Err),
\* dst |-> dst afterwards, panic |-> a word was stored past the end of dst]
encode_all_ref(dst0, src0) ==
    Bind(dst0, LAMBDA dst : Bind(encode_all(src0), LAMBDA r :
        [ok |-> r.ok,
         n |-> IF r.ok THEN Len(r.words) ELSE 0,
         panic |-> Len(r.words) > Len(dst),
         dst |-> Vec([j \in 1..Len(dst) |-> IF j <= Len(r.words) THEN r.words[j] ELSE dst[j]])]))

\* encode: [ok |-> no "value out of bounds", word |-> the packed word,
\* n |-> the number of values of src packed]
simple8b_encode(src0) ==
    Bind(src0, LAMBDA src :
        Bind(first_selector(src), LAMBDA sel :
            IF sel = 16
            THEN [ok |-> Len(src) = 0, word |-> U64(0), n |-> 0]
            ELSE [ok |-> TRUE, word |-> branch_word(sel, src), n |-> SELECTOR[sel+1].n]))

\* simple8b::Encoder::new
simple8b_new ==
    [buf |-> [i \in 1..240 |-> U64(0)], h |-> 0, t |-> 0, bp |-> 0,
     bytes |-> Zeros(128), b |-> Zeros(8), panic |-> FALSE]

\* simple8b::Encoder::flush: [e |-> the encoder afterwards, ok |-> it returned Ok]
simple8b_flush(e0) ==
    Bind(e0, LAMBDA e :
        IF e.t = 0 THEN [e |-> e, ok |-> TRUE]
        ELSE Bind(simple8b_encode(SubSeq(e.buf, e.h + 1, e.t)), LAMBDA r :
            IF ~r.ok THEN [e |-> e, ok |-> FALSE]
            ELSE Bind(to_be_bytes(r.word), LAMBDA b :
                 LET extend == e.bp + 8 > Len(e.bytes)
                     bytes == IF extend THEN e.bytes \o b
                              ELSE [k \in 1..Len(e.bytes) |->
                                      IF k > e.bp /\ k <= e.bp + 8 THEN b[k - e.bp]
                                      ELSE e.bytes[k]]
                     all == e.h + r.n = e.t
                 IN  [e |-> [e EXCEPT !.b = b,
                                      !.bytes = Vec(bytes),
                                      !.bp = IF extend THEN Len(e.bytes) + 8 ELSE e.bp + 8,
                                      !.h = IF all THEN 0 ELSE e.h + r.n,
                                      !.t = IF all THEN 0 ELSE e.t],
                      ok |-> TRUE])))

\* simple8b::Encoder::write: Vec::drain removes the values in front of the
\* head, which shortens buf; the store at index t of a buf of length t aborts
simple8b_write(e0, v) ==
    Bind(e0, LAMBDA e :
    Bind(IF e.t >= Len(e.buf) THEN simple8b_flush(e) ELSE [e |-> e, ok |-> TRUE], LAMBDA f :
        IF ~f.ok THEN f
        ELSE Bind(IF f.e.t >= Len(f.e.buf)
                  THEN [f.e EXCEPT !.buf = SubSeq(f.e.buf, f.e.h + 1, Len(f.e.buf)),
                                   !.t = f.e.t - f.e.h,
                                   !.h = 0]
                  ELSE f.e, LAMBDA e1 :
             IF e1.t >= Len(e1.buf) THEN [e |-> [e1 EXCEPT !.panic = TRUE], ok |-> FALSE]
             ELSE [e |-> [e1 EXCEPT !.buf[e1.t + 1] = v, !.t = e1.t + 1], ok |-> TRUE])))

\* simple8b::Encoder::bytes: [e, ok, bytes |-> the bytes returned with Ok]
RECURSIVE simple8b_bytes(_)
simple8b_bytes(e0) ==
    Bind(e0, LAMBDA e :
        IF e.t > 0
        THEN Bind(simple8b_flush(e), LAMBDA f :
                IF ~f.ok THEN [e |-> f.e, ok |-> FALSE, bytes |-> << >>]
                ELSE simple8b_bytes(f.e))
        ELSE [e |-> e, ok |-> TRUE, bytes |-> SubSeq(e.bytes, 1, e.bp)])

\* the loop of a caller that writes vs[lo..hi] and ignores what write returns,
\* as encoding/test.rs does; an abort ends it
RECURSIVE write_each(_, _, _, _)
write_each(e0, vs, lo, hi) ==
    IF lo > hi THEN e0
    ELSE IF lo = hi
         THEN Bind(e0, LAMBDA e : IF e.panic THEN e ELSE simple8b_write(e, vs[lo]).e)
         ELSE Bind(write_each(e0, vs, lo, (lo + hi) \div 2), LAMBDA e1 :
                write_each(e1, vs, (lo + hi) \div 2 + 1, hi))

\* the bytes of a word array, each word big-endian
words_to_bytes(ws0) ==
    Bind(Vec([w \in 1..Len(ws0) |-> to_be_bytes(ws0[w])]), LAMBDA bs :
        Vec([k \in 1..(8 * Len(bs)) |-> bs[((k - 1) \div 8) + 1][((k - 1) % 8) + 1]]))

\* the concatenation of the sequences ss[lo + 1] to ss[hi]
RECURSIVE concat_between(_, _, _)
concat_between(ss, lo, hi) ==
    IF hi <= lo THEN << >>
    ELSE IF hi = lo + 1 THEN ss[hi]
    ELSE concat_between(ss, lo, (lo + hi) \div 2) \o concat_between(ss, (lo + hi) \div 2, hi)

\* for_each: the values handed to the callback as long as it returns true,
\* in order, each with the number of words read when it is delivered
for_each_values(b0, count) ==
    Bind(b0, LAMBDA b :
    Bind(Vec([w \in 1..(Len(b) \div 8) |->
            Bind(from_be_bytes(SubSeq(b, 8 * w - 7, 8 * w)), LAMBDA v :
                LET sel == BitsToNatFrom(v, 60, 64)
                    n == SELECTOR[sel+1].n
                    bits == SELECTOR[sel+1].bit
                IN  Vec([k \in 1..n |->
                        [val |-> Vec([i \in 1..64 |->
                                    IF i <= bits /\ i + (k-1) * bits <= 64
                                    THEN v[i + (k-1) * bits] ELSE 0]),
                         count |-> count + w]]))]),
         LAMBDA per_word : concat_between(per_word, 0, Len(per_word))))

\* for_each with a callback that always returns true: the values delivered
for_each(b) == Bind(for_each_values(b, 0), LAMBDA vs : Vec([k \in 1..Len(vs) |-> vs[k].val]))

\* the selector of word w (from 1) of the bytes b
selector_at(b, w) == b[8 * w - 7] \div 16

\* the sum of SELECTOR[sel].n over the words lo + 1 to hi of b
RECURSIVE count_between_words(_, _, _)
count_between_words(b, lo, hi) ==
    IF hi <= lo THEN 0
    ELSE IF hi = lo + 1 THEN SELECTOR[selector_at(b, hi) + 1].n
    ELSE count_between_words(b, lo, (lo + hi) \div 2)
         + count_between_words(b, (lo + hi) \div 2, hi)

\* count_bytes: Ok(count), or Err for bytes left over after the last word
count_bytes(b0) ==
    Bind(b0, LAMBDA b :
        [ok |-> Len(b) % 8 = 0, count |-> count_between_words(b, 0, Len(b) \div 8)])

\* count_bytes_between: [result |-> "ok", "err" or "panic", count].  The
\* literal in `1 << bit` is an i32: for the 60 bits of selector 15 the shift
\* aborts in a build that checks overflow and is taken modulo 32 otherwise.
\* The loop over the values of a word ends at the first value above max.
count_bytes_between(b0, min, max, checks) ==
    Bind(b0, LAMBDA b :
    Bind(Vec([w \in 1..(Len(b) \div 8) |->
            LET bits == SELECTOR[selector_at(b, w) + 1].bit
                vs == for_each_values(SubSeq(b, 8 * w - 7, 8 * w), 0)
                stop == CHOOSE k \in 1..(Len(vs) + 1) :
                            /\ k <= Len(vs) => LtBits(max, vs[k].val)
                            /\ \A j \in 1..(k - 1) : ~LtBits(max, vs[j].val)
            IN  [panic |-> checks /\ bits >= 32,
                 count |-> IF AtLeastPow2(min, IF bits >= 32 THEN bits % 32 ELSE bits) THEN 0
                           ELSE Cardinality({k \in 1..(stop - 1) :
                                    ~LtBits(vs[k].val, min) /\ LtBits(vs[k].val, max)})]]),
         LAMBDA per_word :
        IF \E w \in 1..Len(per_word) : per_word[w].panic THEN [result |-> "panic", count |-> 0]
        ELSE IF Len(b) % 8 # 0 THEN [result |-> "err", count |-> 0]
        ELSE [result |-> "ok",
              count |-> Cardinality({<<w, c>> \in (1..Len(per_word)) \X (1..240) :
                                        c <= per_word[w].count})]))

(***************************************************************************)
(* jetstream.rs: spatial references and delta layers.                      *)
(***************************************************************************)
\* a create_spatial_refs without the gap between voltages and currents
create_spatial_refs_skips_gap(count, count_v, count_i, include_neutral) ==
    LET inc == IF include_neutral THEN 4 ELSE 3
    IN  [k \in 1..count |->
            IF k - 1 >= inc /\ k - 1 < (count_v + count_i) * inc THEN k - 1 - inc ELSE -1]

\* create_spatial_refs: refs[i+1] is the reference of variable i, -1 for None
create_spatial_refs(count, count_v, count_i, include_neutral) ==
    LET inc == IF include_neutral THEN 4 ELSE 3
    IN  [k \in 1..count |->
            LET i == k - 1
            IN  IF i >= inc /\ i < count_v * inc THEN i - inc
                ELSE IF i >= inc /\ i >= (count_v + 1) * inc /\ i < (count_v + count_i) * inc
                     THEN i - inc
                     ELSE -1]

get_delta_encoding(sampling_rate) ==
    IF sampling_rate > 100000 THEN HIGH_DELTA_ENCODING_LAYERS
    ELSE DEFAULT_DELTA_ENCODING_LAYERS

\* DatasetWithQuality::new(count)
NewDatasetWithQuality(count) ==
    [t |-> U64(0), i32s |-> [i \in 1..count |-> 0], q |-> [i \in 1..count |-> U32(0)]]

\* QualityHistory::default()
DefaultQualityHistory == [value |-> U32(0), samples |-> 0]

(***************************************************************************)
(* encoder.rs: the Encoder.                                                *)
(***************************************************************************)
\* Encoder::new
NewEncoder(id, i32_count, sampling_rate, samples_per_message) ==
    LET buf_size == MAX_HEADER_SIZE + samples_per_message * i32_count * 8 + i32_count * 4
        delta_encoding_layers == get_delta_encoding(sampling_rate)
        using_simple8b == samples_per_message > SIMPLE8B_THRESHOLD_SAMPLES
    IN  [id |-> id,
         sampling_rate |-> sampling_rate,
         samples_per_message |-> samples_per_message,
         i32_count |-> i32_count,
         buf_a |-> Zeros(buf_size),
         buf_b |-> Zeros(buf_size),
         use_buf_a |-> TRUE,
         len |-> 0,
         encoded_samples |-> 0,
         using_simple8b |-> using_simple8b,
         delta_encoding_layers |-> delta_encoding_layers,
         simple8b_values |-> [j \in 1..samples_per_message |-> U64(0)],
         prev_data |-> [k \in 1..delta_encoding_layers |-> [i \in 1..i32_count |-> 0]],
         delta_n |-> [k \in 1..delta_encoding_layers |-> 0],
         quality_history |-> [i \in 1..i32_count |-> <<DefaultQualityHistory>>],
         diffs |-> IF using_simple8b
                   THEN [i \in 1..i32_count |-> [j \in 1..samples_per_message |-> U64(0)]]
                   ELSE << >>,
         values |-> IF ~using_simple8b
                    THEN [j \in 1..samples_per_message |-> [i \in 1..i32_count |-> 0]]
                    ELSE << >>,
         use_xor |-> FALSE,
         spatial_ref |-> [i \in 1..i32_count |-> -1],
         panic |-> FALSE]

\* Encoder::buf: the active ping-pong buffer
buf(e) == IF e.use_buf_a THEN e.buf_a ELSE e.buf_b

\* a write of `bytes` at offset pos of the active buffer through buf_mut();
\* a write past the end of the buffer aborts
buf_write(e, pos, bytes0) ==
    Bind(bytes0, LAMBDA bytes :
        IF pos + Len(bytes) > Len(buf(e)) THEN [e EXCEPT !.panic = TRUE]
        ELSE LET new == [k \in 1..Len(buf(e)) |->
                            IF k > pos /\ k <= pos + Len(bytes) THEN bytes[k - pos]
                            ELSE buf(e)[k]]
             IN  IF e.use_buf_a THEN [e EXCEPT !.buf_a = Vec(new)]
                 ELSE [e EXCEPT !.buf_b = Vec(new)])

\* Encoder::set_xor
set_xor(e, xor) == [e EXCEPT !.use_xor = xor]

\* Encoder::set_spatial_refs
set_spatial_refs(e, count, count_v, count_i, include_neutral) ==
    [e EXCEPT !.spatial_ref = create_spatial_refs(count, count_v, count_i, include_neutral)]

\* an encode_single_sample that stages value as i64 as u64, without the zig-zag
encode_single_sample_stages_raw(e, index, value) ==
    IF e.using_simple8b
    THEN [e EXCEPT !.diffs[index + 1][e.encoded_samples + 1] = I32ToBits64(value)]
    ELSE [e EXCEPT !.values[e.encoded_samples + 1][index + 1] = value]

\* Encoder::encode_single_sample
encode_single_sample(e, index, value) ==
    IF e.using_simple8b
    THEN [e EXCEPT !.diffs[index + 1][e.encoded_samples + 1] =
                        zig_zag_encode64(I32ToBits64(value))]
    ELSE [e EXCEPT !.values[e.encoded_samples + 1][index + 1] = value]

\* a difference that is taken by addition
delta_adds(e, a, b) == WrappingAdd(a, b)

\* a ^ b when use_xor, a - b otherwise
delta(e, a, b) == IF e.use_xor THEN Xor32(a, b) ELSE WrappingSub(a, b)

\* the subtraction a - b aborts: arithmetic mode in a build that checks overflow
delta_aborts(e, a, b, checks) == checks /\ ~e.use_xor /\ SubOverflows(a, b)

\* a cascade that keeps an entry of the scratch vector delta_n once it is set
RECURSIVE encode_delta_layers_keeps_scratch(_, _, _, _, _)
encode_delta_layers_keeps_scratch(e0, i, j, k, checks) ==
    Bind(e0, LAMBDA e :
        IF k >= (IF j < e.delta_encoding_layers THEN j ELSE e.delta_encoding_layers) THEN e
        ELSE encode_delta_layers_keeps_scratch(
                [e EXCEPT !.delta_n[k + 1] =
                    IF e.delta_n[k + 1] # 0 THEN e.delta_n[k + 1]
                    ELSE delta(e, e.delta_n[k], e.prev_data[k + 1][i + 1])],
                i, j, k + 1, checks))

\* the loop `for k in 1..min(j, layers)` of encode, from k on, for variable i
RECURSIVE encode_delta_layers(_, _, _, _, _)
encode_delta_layers(e0, i, j, k, checks) ==
    Bind(e0, LAMBDA e :
        IF k >= (IF j < e.delta_encoding_layers THEN j ELSE e.delta_encoding_layers) THEN e
        ELSE encode_delta_layers(
                [e EXCEPT !.delta_n[k + 1] = delta(e, e.delta_n[k], e.prev_data[k + 1][i + 1]),
                          !.panic = e.panic \/ delta_aborts(e, e.delta_n[k],
                                                            e.prev_data[k + 1][i + 1], checks)],
                i, j, k + 1, checks))

\* the body of the loop `for i in 0..data.i32s.len()` of encode, for variable i
encode_variable(e0, data, i, checks) ==
    Bind(e0, LAMBDA e :
        LET j == e.encoded_samples
            layers == e.delta_encoding_layers
            ref == e.spatial_ref[i + 1]
            raw == data.i32s[i + 1]
            val == IF ref >= 0 THEN WrappingSub(raw, data.i32s[ref + 1]) ELSE raw
            ref_aborts == ref >= 0 /\ checks /\ SubOverflows(raw, data.i32s[ref + 1])
            e1 == IF j > 0
                  THEN [e EXCEPT !.delta_n[1] = delta(e, val, e.prev_data[1][i + 1]),
                                 !.panic = e.panic \/ ref_aborts
                                           \/ delta_aborts(e, val, e.prev_data[1][i + 1], checks)]
                  ELSE [e EXCEPT !.panic = e.panic \/ ref_aborts]
        IN  Bind(encode_delta_layers(e1, i, j, 1, checks), LAMBDA e2 :
            Bind(IF j = 0 THEN encode_single_sample(e2, i, val)
                 ELSE encode_single_sample(e2, i,
                        e2.delta_n[(IF j - 1 < layers - 1 THEN j - 1 ELSE layers - 1) + 1]),
                 LAMBDA e3 :
                    [e3 EXCEPT !.prev_data =
                        [k \in 1..layers |->
                            IF k = 1 THEN [e3.prev_data[1] EXCEPT ![i + 1] = val]
                            ELSE IF k - 1 <= (IF j < layers - 1 THEN j ELSE layers - 1)
                                 THEN [e3.prev_data[k] EXCEPT ![i + 1] = e3.delta_n[k - 1]]
                                 ELSE e3.prev_data[k]]])))

\* the loop `for i in 0..data.i32s.len()` of encode from variable i on; an
\* index past the end of spatial_ref or of data.i32s aborts
RECURSIVE encode_variables(_, _, _, _)
encode_variables(e0, data, i, checks) ==
    Bind(e0, LAMBDA e :
        IF i >= Len(data.i32s) THEN e
        ELSE IF i >= Len(e.spatial_ref) \/ e.spatial_ref[i + 1] >= Len(data.i32s)
             THEN [e EXCEPT !.panic = TRUE]
             ELSE encode_variables(encode_variable(e, data, i, checks), data, i + 1, checks))

\* the first part of encode: the header and the quality history
encode_header_and_quality(e0, data) ==
    Bind(e0, LAMBDA e :
        IF Len(data.q) > Len(e.quality_history) THEN [e EXCEPT !.panic = TRUE]
        ELSE IF e.encoded_samples = 0
        THEN Bind(buf_write(e, 0, e.id), LAMBDA e1 :
             Bind(buf_write(e1, 16, to_be_bytes(data.t)), LAMBDA e2 :
                [e2 EXCEPT !.len = 24,
                           !.quality_history =
                               [i \in 1..Len(e.quality_history) |->
                                   IF i <= Len(data.q)
                                   THEN [e.quality_history[i] EXCEPT
                                            ![1] = [value |-> data.q[i], samples |-> 1]]
                                   ELSE e.quality_history[i]]]))
        ELSE [e EXCEPT !.quality_history =
                [i \in 1..Len(e.quality_history) |->
                    LET h == e.quality_history[i]
                    IN  IF i > Len(data.q) THEN h
                        ELSE IF h[Len(h)].value = data.q[i]
                             THEN [h EXCEPT ![Len(h)].samples = h[Len(h)].samples + 1]
                             ELSE Append(h, [value |-> data.q[i], samples |-> 1])]])

\* the varint section of _end_encode: values[i][j] for i < encoded_samples, j < i32_count
RECURSIVE values_bytes(_, _, _)
values_bytes(e, i, j) ==
    IF i >= e.encoded_samples THEN << >>
    ELSE IF j >= e.i32_count THEN values_bytes(e, i + 1, 0)
    ELSE put_varint32(e.values[i + 1][j + 1]) \o values_bytes(e, i, j + 1)

\* a Simple-8b section that packs all N entries of diffs[i], not the first
\* encoded_samples of them
RECURSIVE end_encode_simple8b_whole(_, _)
end_encode_simple8b_whole(e0, i) ==
    Bind(e0, LAMBDA e :
        IF i >= Len(e.diffs) THEN e
        ELSE Bind(encode_all_ref(e.simple8b_values, e.diffs[i + 1]), LAMBDA r :
             Bind(buf_write([e EXCEPT !.simple8b_values = r.dst,
                                      !.panic = e.panic \/ r.panic],
                            e.len, words_to_bytes(SubSeq(r.dst, 1, r.n))), LAMBDA e1 :
                end_encode_simple8b_whole([e1 EXCEPT !.len = e.len + 8 * r.n], i + 1))))

\* the Simple-8b section of _end_encode from variable i on
RECURSIVE end_encode_simple8b(_, _)
end_encode_simple8b(e0, i) ==
    Bind(e0, LAMBDA e :
        IF i >= Len(e.diffs) THEN e
        ELSE LET actual_samples == IF e.encoded_samples < e.samples_per_message
                                   THEN e.encoded_samples ELSE e.samples_per_message
             IN  Bind(encode_all_ref(e.simple8b_values,
                                     SubSeq(e.diffs[i + 1], 1, actual_samples)), LAMBDA r :
                 Bind(buf_write([e EXCEPT !.simple8b_values = r.dst,
                                          !.panic = e.panic \/ r.panic],
                                e.len, words_to_bytes(SubSeq(r.dst, 1, r.n))), LAMBDA e1 :
                    end_encode_simple8b([e1 EXCEPT !.len = e.len + 8 * r.n], i + 1))))

\* the RLE pairs of one variable, the run of the last pair overridden to 0
RECURSIVE quality_pairs_bytes(_, _)
quality_pairs_bytes(h, j) ==
    IF j > Len(h) THEN << >>
    ELSE put_uvarint32(h[j].value)
         \o put_uvarint32(U32(IF j = Len(h) THEN 0 ELSE h[j].samples))
         \o quality_pairs_bytes(h, j + 1)

\* the quality section of _end_encode from variable i on
RECURSIVE quality_bytes(_, _)
quality_bytes(qh, i) ==
    IF i > Len(qh) THEN << >> ELSE quality_pairs_bytes(qh[i], 1) \o quality_bytes(qh, i + 1)

\* a compressor that returns the body as it is
gz_encode_stores(body) == body

\* GzEncoder at Compression::best() and GzDecoder, as a stored gzip member:
\* the two magic bytes of gzip followed by the payload
gz_encode(body) == <<31, 139>> \o body

gz_decode(b) ==
    IF Len(b) >= 2 /\ b[1] = 31 /\ b[2] = 139
    THEN [ok |-> TRUE, bytes |-> SubSeq(b, 3, Len(b))]
    ELSE [ok |-> FALSE, bytes |-> << >>]

\* Encoder::_end_encode: [enc |-> the encoder afterwards, buf |-> the frame returned]
\* (the length returned is Len(buf))
_end_encode(e0) ==
    Bind(e0, LAMBDA e :
    Bind(put_varint32(e.encoded_samples), LAMBDA count_varint :
    Bind(buf_write(e, e.len, count_varint), LAMBDA e1 :
    Bind(e.len + Len(count_varint), LAMBDA actual_header_len :
    Bind(IF e.using_simple8b
         THEN end_encode_simple8b([e1 EXCEPT !.len = actual_header_len], 0)
         ELSE Bind(values_bytes(e1, 0, 0), LAMBDA vb :
                [buf_write(e1, actual_header_len, vb) EXCEPT
                    !.len = actual_header_len + Len(vb)]),
         LAMBDA e2 :
    Bind(quality_bytes(e2.quality_history, 1), LAMBDA qb :
    Bind([buf_write(e2, e2.len, qb) EXCEPT !.len = e2.len + Len(qb)], LAMBDA e3 :
        [enc |-> [e3 EXCEPT
                    !.quality_history =
                        [i \in 1..e.i32_count |-> <<DefaultQualityHistory>>],
                    !.encoded_samples = 0,
                    !.len = 0,
                    !.use_buf_a = ~e.use_buf_a],
         buf |-> IF e3.panic THEN << >>
                 ELSE IF e.encoded_samples > USE_GZIP_THRESHOLD_SAMPLES
                      THEN SubSeq(buf(e3), 1, actual_header_len)
                           \o gz_encode(SubSeq(buf(e3), actual_header_len + 1, e3.len))
                      ELSE SubSeq(buf(e3), 1, e3.len)])))))))

\* an end_encode that leaves the sample counter as it was
end_encode_keeps_count(e) ==
    [_end_encode(e) EXCEPT !.enc.encoded_samples = e.encoded_samples]

\* Encoder::end_encode
end_encode(e) == _end_encode(e)

\* a cancel_encode that leaves the sample counter as it was
cancel_encode_keeps_count(e) ==
    [e EXCEPT !.quality_history = [i \in 1..e.i32_count |-> <<DefaultQualityHistory>>],
              !.len = 0,
              !.use_buf_a = FALSE]

\* Encoder::cancel_encode: the buffer switches from A to B and never back
cancel_encode(e) ==
    [e EXCEPT !.quality_history = [i \in 1..e.i32_count |-> <<DefaultQualityHistory>>],
              !.encoded_samples = 0,
              !.len = 0,
              !.use_buf_a = FALSE]

\* an encode that ends the message one sample late
encode_ends_late(e0, data, checks) ==
    Bind(encode_variables(encode_header_and_quality(e0, data), data, 0, checks), LAMBDA e :
    Bind([e EXCEPT !.encoded_samples = e.encoded_samples + 1], LAMBDA e1 :
        IF e1.panic THEN [enc |-> e1, buf |-> << >>]
        ELSE IF e1.encoded_samples > e1.samples_per_message THEN _end_encode(e1)
        ELSE [enc |-> e1, buf |-> << >>]))

\* an encode that writes the timestamp of every sample into the header
encode_stamps_every_sample(e0, data, checks) ==
    Bind(buf_write(encode_header_and_quality(e0, data), 16, to_be_bytes(data.t)), LAMBDA e00 :
    Bind(encode_variables(e00, data, 0, checks), LAMBDA e :
    Bind([e EXCEPT !.encoded_samples = e.encoded_samples + 1], LAMBDA e1 :
        IF e1.panic THEN [enc |-> e1, buf |-> << >>]
        ELSE IF e1.encoded_samples >= e1.samples_per_message THEN _end_encode(e1)
        ELSE [enc |-> e1, buf |-> << >>])))

\* Encoder::encode: [enc |-> the encoder afterwards, buf |-> the buffer returned]
encode(e0, data, checks) ==
    Bind(encode_variables(encode_header_and_quality(e0, data), data, 0, checks), LAMBDA e :
    Bind([e EXCEPT !.encoded_samples = e.encoded_samples + 1], LAMBDA e1 :
        IF e1.panic THEN [enc |-> e1, buf |-> << >>]
        ELSE IF e1.encoded_samples >= e1.samples_per_message THEN _end_encode(e1)
        ELSE [enc |-> e1, buf |-> << >>]))

(***************************************************************************)
(* decoder.rs: the Decoder.                                                *)
(***************************************************************************)
\* Decoder::new
NewDecoder(id, i32_count, sampling_rate, samples_per_message) ==
    LET delta_encoding_layers == get_delta_encoding(sampling_rate)
    IN  [id |-> id,
         sampling_rate |-> sampling_rate,
         samples_per_message |-> samples_per_message,
         encoded_samples |-> 0,
         i32_count |-> i32_count,
         gz_buf |-> << >>,
         out |-> [k \in 1..samples_per_message |-> NewDatasetWithQuality(i32_count)],
         start_timestamp |-> U64(0),
         using_simple8b |-> samples_per_message > SIMPLE8B_THRESHOLD_SAMPLES,
         delta_encoding_layers |-> delta_encoding_layers,
         delta_sum |-> [k \in 1..(delta_encoding_layers - 1) |-> [i \in 1..i32_count |-> 0]],
         use_xor |-> FALSE,
         spatial_ref |-> [i \in 1..i32_count |-> -1],
         panic |-> FALSE]

\* a decoder that always accumulates by addition
undelta_always_adds(d, a, b) == WrappingAdd(a, b)

\* a += b or a ^= b of the decoder
undelta(d, a, b) == IF d.use_xor THEN Xor32(a, b) ELSE WrappingAdd(a, b)

\* the addition a + b aborts: arithmetic mode in a build that checks overflow
undelta_aborts(d, a, b, checks) == checks /\ ~d.use_xor /\ AddOverflows(a, b)

\* the loop `for k in (1..=max_index).rev()` of the delta decoding, from k down
RECURSIVE decode_delta_layers(_, _, _, _)
decode_delta_layers(d0, i, k, checks) ==
    Bind(d0, LAMBDA d :
        IF k < 1 THEN d
        ELSE decode_delta_layers(
                [d EXCEPT !.delta_sum[k][i + 1] =
                              undelta(d, d.delta_sum[k][i + 1], d.delta_sum[k + 1][i + 1]),
                          !.panic = d.panic \/ undelta_aborts(d, d.delta_sum[k][i + 1],
                                                              d.delta_sum[k + 1][i + 1], checks)],
                i, k - 1, checks))

\* the delta decoding of one residual: sample index_ts >= 1 of variable i
decode_delta(d0, index_ts, i, decoded_value, checks) ==
    Bind(d0, LAMBDA d :
        LET layers == d.delta_encoding_layers
            max_index == (IF index_ts < layers - 1 THEN index_ts ELSE layers - 1) - 1
        IN  Bind([d EXCEPT !.delta_sum[max_index + 1][i + 1] =
                               undelta(d, d.delta_sum[max_index + 1][i + 1], decoded_value),
                           !.panic = d.panic \/ undelta_aborts(d, d.delta_sum[max_index + 1][i + 1],
                                                               decoded_value, checks)],
                 LAMBDA d1 :
            Bind(decode_delta_layers(d1, i, max_index, checks), LAMBDA d2 :
                [d2 EXCEPT !.out[index_ts + 1].i32s[i + 1] =
                               undelta(d2, d2.out[index_ts].i32s[i + 1], d2.delta_sum[1][i + 1]),
                           !.panic = d2.panic \/ undelta_aborts(d2, d2.out[index_ts].i32s[i + 1],
                                                                d2.delta_sum[1][i + 1], checks)])))

\* the inner spatial-reference loop on the values of one entry of out, from
\* variable i on: [i32s |-> the values afterwards, panic |-> an addition aborted]
RECURSIVE spatial_fixup_sample(_, _, _, _)
spatial_fixup_sample(st0, spatial_ref, i, checks) ==
    Bind(st0, LAMBDA st :
        IF i >= Len(st.i32s) THEN st
        ELSE IF spatial_ref[i + 1] >= 0
             THEN LET a == st.i32s[i + 1]
                      b == st.i32s[spatial_ref[i + 1] + 1]
                  IN  spatial_fixup_sample(
                        [i32s |-> [st.i32s EXCEPT ![i + 1] = WrappingAdd(a, b)],
                         panic |-> st.panic \/ (checks /\ AddOverflows(a, b))],
                        spatial_ref, i + 1, checks)
             ELSE spatial_fixup_sample(st, spatial_ref, i + 1, checks))

\* the spatial-reference loops over every entry of out
spatial_fixup(d0, checks) ==
    Bind(d0, LAMBDA d :
    Bind(Vec([k \in 1..Len(d.out) |->
                spatial_fixup_sample([i32s |-> d.out[k].i32s, panic |-> FALSE],
                                     d.spatial_ref, 0, checks)]), LAMBDA fs :
        [d EXCEPT !.out = Vec([k \in 1..Len(d.out) |->
                                [d.out[k] EXCEPT !.i32s = fs[k].i32s]]),
                  !.panic = d.panic \/ \E k \in 1..Len(fs) : fs[k].panic]))

\* one call of the closure given to simple8b::for_each, with value v read
\* from word number `count`
simple8b_callback(st, v, count, actual_samples, checks) ==
    IF st.stop \/ st.d.panic THEN st
    ELSE IF actual_samples = 0
         THEN [st EXCEPT !.d.panic = TRUE]   \* decode_counter % actual_samples
    ELSE LET d == st.d
             index_ts == st.decode_counter % actual_samples
             i == IF st.decode_counter > 0 /\ index_ts = 0 THEN st.i + 1 ELSE st.i
             decoded_value == BitsToI32(zig_zag_decode64(v))
             decode_counter == st.decode_counter + 1
             last == decode_counter = actual_samples * d.i32_count
         IN  IF i >= d.i32_count THEN [st EXCEPT !.d.panic = TRUE]
             ELSE
             Bind(IF index_ts = 0
                  THEN [d EXCEPT !.out[1].i32s[i + 1] = decoded_value]
                  ELSE decode_delta([d EXCEPT !.out[index_ts + 1].t = U64(index_ts)],
                                    index_ts, i, decoded_value, checks),
                  LAMBDA d1 :
                    [d |-> IF last THEN spatial_fixup(d1, checks) ELSE d1,
                     decode_counter |-> decode_counter,
                     i |-> i,
                     count |-> count,
                     stop |-> last])

\* the state after the first n values of vs were passed to the closure:
\* st = [d, decode_counter, i, count |-> words read, stop |-> it returned false]
RECURSIVE simple8b_callbacks_between(_, _, _, _, _, _)
simple8b_callbacks_between(st0, vs, lo, hi, actual_samples, checks) ==
    IF hi <= lo THEN st0
    ELSE IF hi = lo + 1
         THEN Bind(st0, LAMBDA st :
                simple8b_callback(st, vs[hi].val, vs[hi].count, actual_samples, checks))
    ELSE Bind(simple8b_callbacks_between(st0, vs, lo, (lo + hi) \div 2, actual_samples, checks),
              LAMBDA st :
                simple8b_callbacks_between(st, vs, (lo + hi) \div 2, hi, actual_samples, checks))

simple8b_callbacks(st0, vs, n, actual_samples, checks) ==
    simple8b_callbacks_between(st0, vs, 0, n, actual_samples, checks)

\* the loop `for i in 0..self.i32_count` reading the first set of samples:
\* st = [d, length]
RECURSIVE decode_first_samples(_, _, _)
decode_first_samples(st0, i, checks) ==
    Bind(st0, LAMBDA st :
        IF i >= st.d.i32_count \/ st.d.panic THEN st
        ELSE Bind(varint32(SubSeq(st.d.gz_buf, st.length + 1, Len(st.d.gz_buf)), checks),
                  LAMBDA r :
                decode_first_samples(
                    [d |-> [st.d EXCEPT !.out[1].i32s[i + 1] = r.val,
                                        !.panic = st.d.panic \/ r.panic],
                     length |-> st.length + r.n],
                    i + 1, checks)))

\* the loop `for i in 0..self.i32_count` of the delta decoding of sample total_samples
RECURSIVE decode_sample(_, _, _, _)
decode_sample(st0, total_samples, i, checks) ==
    Bind(st0, LAMBDA st :
        IF i >= st.d.i32_count \/ st.d.panic THEN st
        ELSE Bind(varint32(SubSeq(st.d.gz_buf, st.length + 1, Len(st.d.gz_buf)), checks),
                  LAMBDA r :
                decode_sample(
                    [d |-> decode_delta([st.d EXCEPT !.panic = st.d.panic \/ r.panic],
                                        total_samples, i, r.val, checks),
                     length |-> st.length + r.n],
                    total_samples, i + 1, checks)))

\* the loop decoding the remaining delta-delta encoded values, from total_samples on
RECURSIVE decode_remaining(_, _, _, _)
decode_remaining(st0, total_samples, actual_samples, checks) ==
    Bind(st0, LAMBDA st :
        IF st.d.panic THEN st
        ELSE Bind(decode_sample(
                    [st EXCEPT !.d.out[total_samples + 1].t = U64(total_samples)],
                    total_samples, 0, checks), LAMBDA st1 :
                IF total_samples + 1 >= actual_samples
                THEN [st1 EXCEPT !.d = spatial_fixup(st1.d, checks)]
                ELSE decode_remaining(st1, total_samples + 1, actual_samples, checks)))

\* a run length `val_unsigned as usize`, capped at 2^30: every cap above the
\* number of samples per message has the same effect on the loops below
run_length(v) == IF AtLeastPow2(v, 30) THEN 2^30 ELSE BitsToNat(v)

\* the loop `while sample_number < actual_samples` of variable i: st = [d, length]
RECURSIVE decode_quality_runs(_, _, _, _, _)
decode_quality_runs(st0, i, sample_number, actual_samples, checks) ==
    Bind(st0, LAMBDA st :
        IF sample_number >= actual_samples \/ st.d.panic THEN st
        ELSE LET bytes == st.d.gz_buf
             IN  Bind(uvarint32(SubSeq(bytes, st.length + 1, Len(bytes)), checks), LAMBDA v :
                 Bind(uvarint32(SubSeq(bytes, st.length + v.n + 1, Len(bytes)), checks), LAMBDA r :
                 LET run == run_length(r.val)
                     n == Len(st.d.out)
                     d1 == [st.d EXCEPT
                              !.panic = st.d.panic \/ v.panic \/ r.panic,
                              !.out = [j \in 1..n |->
                                  IF \/ j - 1 = sample_number
                                     \/ run = 0 /\ j - 1 >= sample_number + 1
                                     \/ run # 0 /\ j - 1 >= sample_number + 1 /\ j - 1 < run
                                  THEN [st.d.out[j] EXCEPT !.q[i + 1] = v.val]
                                  ELSE st.d.out[j]]]
                 IN  decode_quality_runs(
                        [d |-> d1, length |-> st.length + v.n + r.n],
                        i, IF run = 0 THEN actual_samples ELSE sample_number + run,
                        actual_samples, checks))))

\* the loop `for i in 0..self.i32_count` populating the quality structure
RECURSIVE decode_quality(_, _, _, _)
decode_quality(st, i, actual_samples, checks) ==
    IF i >= st.d.i32_count THEN st
    ELSE Bind(decode_quality_runs(st, i, 0, actual_samples, checks), LAMBDA st1 :
            decode_quality(st1, i + 1, actual_samples, checks))

\* a decode_to_buffer that returns Ok without clearing delta_sum
decode_payload_keeps_delta_sum(d, actual_samples, checks) ==
    Bind(IF d.using_simple8b
         THEN Bind(Bind(for_each_values(d.gz_buf, 0), LAMBDA vs :
                    simple8b_callbacks(
                        [d |-> d, decode_counter |-> 0, i |-> 0, count |-> 0, stop |-> FALSE],
                        vs, IF Len(vs) < actual_samples * d.i32_count + 1 THEN Len(vs)
                            ELSE actual_samples * d.i32_count + 1,
                        actual_samples, checks)), LAMBDA cb :
                    \* for_each returns the words read: all of them unless the callback stopped
                    [d |-> cb.d,
                     length |-> 8 * (IF cb.stop \/ cb.d.panic THEN cb.count
                                     ELSE Len(d.gz_buf) \div 8)])
         ELSE Bind(decode_first_samples([d |-> d, length |-> 0], 0, checks), LAMBDA st :
                    IF actual_samples > 1 THEN decode_remaining(st, 1, actual_samples, checks)
                    ELSE st),
         LAMBDA st :
    Bind(decode_quality(st, 0, actual_samples, checks), LAMBDA st1 :
        IF st1.d.panic THEN [dec |-> st1.d, result |-> "panic"]
        ELSE [dec |-> st1.d, result |-> "ok"]))

\* the part of decode_to_buffer after the payload is in gz_buf
decode_payload(d, actual_samples, checks) ==
    Bind(IF d.using_simple8b
         THEN Bind(Bind(for_each_values(d.gz_buf, 0), LAMBDA vs :
                    simple8b_callbacks(
                        [d |-> d, decode_counter |-> 0, i |-> 0, count |-> 0, stop |-> FALSE],
                        vs, IF Len(vs) < actual_samples * d.i32_count + 1 THEN Len(vs)
                            ELSE actual_samples * d.i32_count + 1,
                        actual_samples, checks)), LAMBDA cb :
                    \* for_each returns the words read: all of them unless the callback stopped
                    [d |-> cb.d,
                     length |-> 8 * (IF cb.stop \/ cb.d.panic THEN cb.count
                                     ELSE Len(d.gz_buf) \div 8)])
         ELSE Bind(decode_first_samples([d |-> d, length |-> 0], 0, checks), LAMBDA st :
                    IF actual_samples > 1 THEN decode_remaining(st, 1, actual_samples, checks)
                    ELSE st),
         LAMBDA st :
    Bind(decode_quality(st, 0, actual_samples, checks), LAMBDA st1 :
        IF st1.d.panic THEN [dec |-> st1.d, result |-> "panic"]
        ELSE [dec |-> [st1.d EXCEPT !.delta_sum =
                          [j \in 1..Len(d.delta_sum) |-> [i \in 1..d.i32_count |-> 0]]],
              result |-> "ok"]))

\* decode_to_buffer from the timestamp on (everything after the id check)
decode_message(d, b, checks) ==
    IF Len(b) < 24 THEN [dec |-> [d EXCEPT !.panic = TRUE], result |-> "panic"]
    ELSE
    Bind(from_be_bytes(SubSeq(b, 17, 24)), LAMBDA start_timestamp :
    Bind(varint32(SubSeq(b, 25, Len(b)), checks), LAMBDA c :
    LET length == 24 + c.n
        n == d.samples_per_message
        \* `val_signed as usize` of a negative count exceeds every usize N
        actual_samples == IF c.val < 0 \/ c.val > n THEN n ELSE c.val
        d1 == [d EXCEPT !.start_timestamp = start_timestamp,
                        !.out[1].t = start_timestamp,
                        !.encoded_samples = c.val,
                        !.gz_buf = << >>,
                        !.panic = c.panic]
    IN  IF c.panic THEN [dec |-> d1, result |-> "panic"]
        ELSE IF actual_samples > USE_GZIP_THRESHOLD_SAMPLES
        THEN Bind(gz_decode(SubSeq(b, length + 1, Len(b))), LAMBDA gr :
                IF ~gr.ok THEN [dec |-> d1, result |-> "err"]
                ELSE decode_payload([d1 EXCEPT !.gz_buf = gr.bytes], actual_samples, checks))
        ELSE decode_payload([d1 EXCEPT !.gz_buf = SubSeq(b, length + 1, Len(b))],
                            actual_samples, checks)))

\* a decode_to_buffer that compares the ids only after the message was decoded
decode_to_buffer_compares_late(d0, buf0, checks) ==
    Bind(d0, LAMBDA d : Bind(buf0, LAMBDA b :
        IF Len(b) < 16 THEN [dec |-> [d EXCEPT !.panic = TRUE], result |-> "panic"]
        ELSE Bind(decode_message(d, b, checks), LAMBDA r :
                IF SubSeq(b, 1, 16) # d.id
                THEN [dec |-> [r.dec EXCEPT !.panic = TRUE], result |-> "panic"]
                ELSE r)))

\* a decode_to_buffer that numbers the samples after the first from 2
decode_to_buffer_counts_from_two(d0, buf0, checks) ==
    Bind(d0, LAMBDA d : Bind(buf0, LAMBDA b :
        IF Len(b) < 16 \/ SubSeq(b, 1, 16) # d.id
        THEN [dec |-> [d EXCEPT !.panic = TRUE], result |-> "panic"]
        ELSE Bind(decode_message(d, b, checks), LAMBDA r :
                [r EXCEPT !.dec.out = [k \in 1..Len(r.dec.out) |->
                    IF k = 1 \/ r.dec.out[k].t # U64(k - 1) THEN r.dec.out[k]
                    ELSE [r.dec.out[k] EXCEPT !.t = U64(k)]]])))

\* Decoder::decode_to_buffer: [dec |-> the decoder afterwards,
\*  result |-> "ok" for Ok(()), "err" for Err(..), "panic" for an abort]
decode_to_buffer(d0, buf0, checks) ==
    Bind(d0, LAMBDA d : Bind(buf0, LAMBDA b :
        \* buf[..16] of a shorter buffer aborts
        IF Len(b) < 16 THEN [dec |-> [d EXCEPT !.panic = TRUE], result |-> "panic"]
        \* assert_eq!(buf[..length], self.id.as_bytes()[..], "IDs did not match")
        ELSE IF SubSeq(b, 1, 16) # d.id
             THEN [dec |-> [d EXCEPT !.panic = TRUE], result |-> "panic"]
        ELSE decode_message(d, b, checks)))

\* Decoder::set_xor and Decoder::set_spatial_refs (the decoder keeps the
\* references as isize, -1 for a variable without reference)
decoder_set_xor(d, xor) == [d EXCEPT !.use_xor = xor]

decoder_set_spatial_refs(d, count, count_v, count_i, include_neutral) ==
    [d EXCEPT !.spatial_ref = create_spatial_refs(count, count_v, count_i, include_neutral)]

(***************************************************************************)
(* The program: one encoder and one decoder of the same stream, driven by  *)
(* a caller as in testcase.rs (encode_and_decode) and examples/basic.rs.   *)
(***************************************************************************)

\* the stream's id (a Uuid, 16 bytes) and ids of other streams
ID == [i \in 1..16 |-> 16 + i]

OtherIDs == {[ID EXCEPT ![1] = 0], [ID EXCEPT ![16] = 255]}

\* the configurations: i32_count (M), samples_per_message (N), sampling_rate,
\* use_xor, spatial references (count_v voltages of count variables, or none),
\* and the build: with overflow checks (debug) or without (release)
Configurations ==
    { [i32_count |-> c[1], samples_per_message |-> c[2], sampling_rate |-> c[3],
       use_xor |-> c[4], spatial |-> c[5], checks |-> k] :
        c \in { <<1, 1, 4000, FALSE, FALSE>>,
                <<1, 4, 4000, FALSE, FALSE>>,
                <<1, 17, 200000, TRUE, FALSE>>,
                <<4, 2, 4000, FALSE, TRUE>> },
        k \in BOOLEAN }

\* the sample values a caller passes: M values and M qualities
SampleValues(c) ==
    IF c.i32_count = 1
    THEN { [i32s |-> <<0>>, q |-> <<U32(0)>>],
           [i32s |-> <<5>>, q |-> <<U32(1)>>],
           [i32s |-> <<MinI32>>, q |-> <<U32(1)>>] }
    ELSE { [i32s |-> <<0, 0, 0, 0>>, q |-> <<U32(0), U32(0), U32(0), U32(0)>>],
           [i32s |-> <<3, -1, 7, 5>>, q |-> <<U32(0), U32(1), U32(0), U32(3)>>],
           [i32s |-> <<MaxI32, 2, 2, -2>>, q |-> <<U32(0), U32(1), U32(0), U32(0)>>] }

\* the timestamp of the first sample a caller passes
StartTimes == {258}

VARIABLES
    cfg,        \* the configuration of the stream
    enc,        \* the Encoder
    dec,        \* the Decoder
    ret,        \* the buffer the last encode or end_encode returned
    held,       \* the first frame returned, which the caller keeps
    msg,        \* the samples of the message ret carries or that is accumulating
    pending,    \* the samples passed since the last frame, end_encode or cancel_encode
    history,    \* how messages have ended so far: "frame", "end_encode", "cancel_encode"
    op,         \* the last call made
    res,        \* what the last decode_to_buffer returned
    clock,      \* the timestamp of the next sample
    calls,      \* the number of encode calls made
    ends,       \* the number of end_encode and cancel_encode calls made
    changes,    \* the number of samples that differed from the one before
    last,       \* the values of the last sample passed
    src,        \* simple8b: the array of values to encode
    runs,       \* simple8b: the number of runs of ones put into src
    words,      \* simple8b: the encoded words as bytes, each word big-endian
    delivered,  \* simple8b: the values for_each handed to its callback
    stage,      \* simple8b: "idle", "input", "encoded" or "decoded"
    fn,         \* functions: the last function called on its own, "none" before
    arg,        \* functions: the input a caller holds
    val         \* functions: what the calls returned

codec_vars == <<cfg, enc, dec, ret, held, msg, pending, history, op, res, clock, calls, ends, changes, last>>

simple8b_vars == <<src, runs, words, delivered, stage>>

function_vars == <<fn, arg, val>>

vars == <<codec_vars, simple8b_vars, function_vars>>

\* Encoder::new followed by the setters, as the caller configures it
ConfiguredEncoder(c) ==
    Bind(set_xor(NewEncoder(ID, c.i32_count, c.sampling_rate, c.samples_per_message),
                 c.use_xor), LAMBDA e :
        IF c.spatial THEN set_spatial_refs(e, c.i32_count, 2, 0, FALSE) ELSE e)

\* Decoder::new followed by the same setters
ConfiguredDecoder(c) ==
    Bind(decoder_set_xor(NewDecoder(ID, c.i32_count, c.sampling_rate, c.samples_per_message),
                         c.use_xor), LAMBDA d :
        IF c.spatial THEN decoder_set_spatial_refs(d, c.i32_count, 2, 0, FALSE) ELSE d)

\* the caller holds no frame
NoFrame == [frame |-> [storage |-> "none", bytes |-> << >>, len |-> 0], returned |-> << >>]

\* a returned frame whose bytes are a slice of the ping-pong buffer they were
\* written to, the one that is not active after the return
returned_frame_is_slice(e, bytes) ==
    [storage |-> IF e.use_buf_a THEN "buf_b" ELSE "buf_a", bytes |-> << >>, len |-> Len(bytes)]

\* the frame a caller receives from encoder e: _end_encode returns a Vec made
\* by to_vec(), an allocation of its own that holds a copy of the bytes
returned_frame(e, bytes) == [storage |-> "vec", bytes |-> bytes, len |-> Len(bytes)]

\* the bytes a caller reads from frame f while the encoder is e
read_frame(e, f) ==
    IF f.storage = "buf_a" THEN SubSeq(e.buf_a, 1, f.len)
    ELSE IF f.storage = "buf_b" THEN SubSeq(e.buf_b, 1, f.len)
    ELSE f.bytes

\* the caller keeps the first frame returned, with a record of its bytes
keep_first(h, r) ==
    IF h.frame.storage = "none" /\ r.buf # << >>
    THEN [frame |-> returned_frame(r.enc, r.buf), returned |-> r.buf]
    ELSE h

\* a panic ends the program
Aborted == enc.panic \/ dec.panic

\* no function is called on its own
NoFunctionCalled == fn = "none" /\ arg = << >> /\ val = << >>

\* a newly constructed encoder and decoder of one of the configurations cs
CodecInitIn(cs) ==
    /\ cfg \in cs
    /\ enc = ConfiguredEncoder(cfg)
    /\ dec = ConfiguredDecoder(cfg)
    /\ ret = << >>
    /\ held = NoFrame
    /\ msg = << >>
    /\ pending = 0
    /\ history = {}
    /\ op = "new"
    /\ res = "none"
    /\ clock \in StartTimes
    /\ calls = 0
    /\ ends = 0
    /\ changes = 0
    /\ last = [i32s |-> << >>, q |-> << >>]

CodecInit == CodecInitIn(Configurations)

\* the codec is driven; no array is passed to simple8b on its own
Init ==
    /\ CodecInit
    /\ src = << >>
    /\ runs = 0
    /\ words = << >>
    /\ delivered = << >>
    /\ stage = "idle"
    /\ NoFunctionCalled

\* the caller passes the next sample, one of `samples`, to Encoder::encode:
\* max_calls times at most, with max_changes changes of the sample at most
EncodeWith(max_calls, max_changes, samples) ==
    /\ ~Aborted
    /\ calls < max_calls
    /\ \E v \in samples :
        /\ (calls > 0 /\ v # last) => changes < max_changes
        /\ \E data \in {[t |-> U64(clock), i32s |-> v.i32s, q |-> v.q]} :
           \E r \in {encode(enc, data, cfg.checks)} :
            /\ enc' = r.enc
            /\ ret' = r.buf
            /\ held' = keep_first(held, r)
            /\ msg' = IF pending = 0 THEN <<data>> ELSE Append(msg, data)
            /\ pending' = IF r.buf # << >> THEN 0 ELSE pending + 1
            /\ history' = IF r.buf # << >> THEN history \cup {"frame"} ELSE history
        /\ changes' = IF calls > 0 /\ v # last THEN changes + 1 ELSE changes
        /\ last' = v
    /\ op' = "encode"
    /\ clock' = clock + 1
    /\ calls' = calls + 1
    /\ UNCHANGED <<cfg, dec, res, ends, simple8b_vars, function_vars>>

EncodeUpTo(max_calls) == EncodeWith(max_calls, MaxChanges, SampleValues(cfg))

Encode == EncodeUpTo(MaxSamples)

\* the caller ends the message early with Encoder::end_encode
EndEncode ==
    /\ ~Aborted
    /\ \E r \in {end_encode(enc)} :
        /\ enc' = r.enc
        /\ ret' = r.buf
        /\ held' = keep_first(held, r)
    /\ msg' = IF pending = 0 THEN << >> ELSE msg
    /\ pending' = 0
    /\ history' = history \cup {"end_encode"}
    /\ op' = "end_encode"
    /\ ends < MaxEnds
    /\ ends' = ends + 1
    /\ UNCHANGED <<cfg, dec, res, clock, calls, changes, last, simple8b_vars, function_vars>>

\* the caller drops the message with Encoder::cancel_encode
CancelEncode ==
    /\ ~Aborted
    /\ enc' = cancel_encode(enc)
    /\ ret' = << >>
    /\ msg' = << >>
    /\ pending' = 0
    /\ history' = history \cup {"cancel_encode"}
    /\ op' = "cancel_encode"
    /\ ends < MaxEnds
    /\ ends' = ends + 1
    /\ UNCHANGED <<cfg, dec, held, res, clock, calls, changes, last, simple8b_vars, function_vars>>

\* a frame was just returned to the caller
FrameReturned == op \in {"encode", "end_encode"} /\ ret # << >>

\* the caller passes the frame just returned to Decoder::decode_to_buffer
Decode ==
    /\ ~Aborted
    /\ FrameReturned
    /\ \E r \in {decode_to_buffer(dec, ret, cfg.checks)} :
        /\ dec' = r.dec
        /\ res' = r.result
    /\ op' = "decode"
    /\ UNCHANGED <<cfg, enc, ret, held, msg, pending, history, clock, calls, ends, changes, last, simple8b_vars, function_vars>>

\* the frame just returned, as the encoder of another stream would have made it
ForeignFrame(id) == id \o SubSeq(ret, 17, Len(ret))

\* the caller passes a frame of another stream to Decoder::decode_to_buffer
DecodeForeign ==
    /\ ~Aborted
    /\ FrameReturned
    /\ Len(ret) >= 16
    /\ \E id \in OtherIDs :
       \E r \in {decode_to_buffer(dec, ForeignFrame(id), cfg.checks)} :
        /\ dec' = r.dec
        /\ res' = r.result
    /\ op' = "decode_foreign"
    /\ UNCHANGED <<cfg, enc, ret, held, msg, pending, history, clock, calls, ends, changes, last, simple8b_vars, function_vars>>

Next == Encode \/ EndEncode \/ CancelEncode \/ Decode \/ DecodeForeign

Spec == Init /\ [][Next]_vars

(***************************************************************************)
(* A stream long enough for gzip: messages of more than                    *)
(* USE_GZIP_THRESHOLD_SAMPLES samples. The decoder also receives frames    *)
(* whose count field was altered on the way.                               *)
(***************************************************************************)

\* the configurations whose full messages are compressed
GzipConfigurations ==
    { [i32_count |-> 1, samples_per_message |-> USE_GZIP_THRESHOLD_SAMPLES + 1,
       sampling_rate |-> 4000, use_xor |-> FALSE, spatial |-> FALSE, checks |-> k] :
        k \in BOOLEAN }

InitGzip ==
    /\ CodecInitIn(GzipConfigurations)
    /\ src = << >>
    /\ runs = 0
    /\ words = << >>
    /\ delivered = << >>
    /\ stage = "idle"
    /\ NoFunctionCalled

\* the frame just returned with the count field of a full message
OverstatedFrame ==
    SubSeq(ret, 1, 24) \o put_varint32(cfg.samples_per_message)
        \o SubSeq(ret, 25 + varint32(SubSeq(ret, 25, Len(ret)), FALSE).n, Len(ret))

\* the decoder receives the frame with an overstated count, after or instead
\* of the frame itself
DecodeOverstated ==
    /\ ~Aborted
    /\ op \in {"end_encode", "decode"}
    /\ Len(ret) >= 25
    /\ \E r \in {decode_to_buffer(dec, OverstatedFrame, cfg.checks)} :
        /\ dec' = r.dec
        /\ res' = r.result
    /\ op' = "decode_overstated"
    /\ UNCHANGED <<cfg, enc, ret, held, msg, pending, history, clock, calls, ends, changes, last, simple8b_vars, function_vars>>

\* the caller passes the next sample of the long stream
EncodeLong == EncodeUpTo(MaxLongSamples)

NextGzip == EncodeLong \/ EndEncode \/ Decode \/ DecodeOverstated

SpecGzip == InitGzip /\ [][NextGzip]_vars

\* the loop of a caller that passes the sample v with the timestamps t0 + lo
\* to t0 + hi - 1 while no message completes: the encoder afterwards
RECURSIVE encode_each(_, _, _, _, _, _)
encode_each(e0, v, t0, lo, hi, checks) ==
    IF hi <= lo THEN e0
    ELSE IF hi = lo + 1
         THEN encode(e0, [t |-> U64(t0 + lo), i32s |-> v.i32s, q |-> v.q], checks).enc
    ELSE Bind(encode_each(e0, v, t0, lo, (lo + hi) \div 2, checks), LAMBDA e :
            encode_each(e, v, t0, (lo + hi) \div 2, hi, checks))

\* the caller passes the samples of one full message to Encoder::encode, all
\* with the same values: the last call completes the message
EncodeRun ==
    /\ ~Aborted
    /\ calls = 0
    /\ ends = 0
    /\ \E v \in SampleValues(cfg) :
        /\ \E n \in {cfg.samples_per_message} :
           \E e \in {encode_each(enc, v, clock, 0, n - 1, cfg.checks)} :
           \E r \in {encode(e, [t |-> U64(clock + n - 1), i32s |-> v.i32s, q |-> v.q],
                            cfg.checks)} :
            /\ enc' = r.enc
            /\ ret' = r.buf
            /\ held' = keep_first(held, r)
            /\ history' = IF r.buf # << >> THEN history \cup {"frame"} ELSE history
        /\ msg' = [k \in 1..cfg.samples_per_message |->
                    [t |-> U64(clock + k - 1), i32s |-> v.i32s, q |-> v.q]]
        /\ last' = v
    /\ pending' = 0
    /\ op' = "encode"
    /\ clock' = clock + cfg.samples_per_message
    /\ calls' = calls + cfg.samples_per_message
    /\ UNCHANGED <<cfg, dec, res, ends, changes, simple8b_vars, function_vars>>

NextGzipFull == EncodeLong \/ EncodeRun \/ EndEncode \/ Decode

SpecGzipFull == InitGzip /\ [][NextGzipFull]_vars

(***************************************************************************)
(* A caller that passes a sample whose vectors do not have M entries.      *)
(***************************************************************************)

\* v with its last entry removed, and with its last entry repeated
Shorter(v) == SubSeq(v, 1, Len(v) - 1)

Longer(v) == Append(v, v[Len(v)])

\* the samples of SampleValues with i32s or q one entry short or one long
MalformedSamples(c) ==
    UNION { { [i32s |-> Shorter(v.i32s), q |-> v.q], [i32s |-> Longer(v.i32s), q |-> v.q],
              [i32s |-> v.i32s, q |-> Shorter(v.q)], [i32s |-> v.i32s, q |-> Longer(v.q)] } :
            v \in SampleValues(c) }

\* the caller passes a malformed sample to Encoder::encode
EncodeMalformed ==
    /\ ~Aborted
    /\ op # "encode_malformed"
    /\ \E v \in MalformedSamples(cfg) :
       \E data \in {[t |-> U64(clock), i32s |-> v.i32s, q |-> v.q]} :
       \E r \in {encode(enc, data, cfg.checks)} :
            /\ enc' = r.enc
            /\ ret' = r.buf
            /\ held' = keep_first(held, r)
            /\ msg' = IF pending = 0 THEN <<data>> ELSE Append(msg, data)
            /\ pending' = IF r.buf # << >> \/ r.enc.panic THEN 0 ELSE pending + 1
            /\ history' = IF r.buf # << >> THEN history \cup {"frame"} ELSE history
    /\ op' = "encode_malformed"
    /\ clock' = clock + 1
    /\ UNCHANGED <<cfg, dec, res, calls, ends, changes, last, simple8b_vars, function_vars>>

\* the well-formed samples that precede it
EncodeBefore == EncodeUpTo(MaxBefore)

NextMalformed == EncodeBefore \/ EncodeMalformed

SpecMalformed == Init /\ [][NextMalformed]_vars

(***************************************************************************)
(* A stream whose values and quality words change with every sample and    *)
(* take the most bytes a varint can take.                                  *)
(***************************************************************************)

\* one variable, messages of MaxVarying samples, in varint mode
VaryingConfigurations ==
    { [i32_count |-> 1, samples_per_message |-> MaxVarying, sampling_rate |-> 4000,
       use_xor |-> FALSE, spatial |-> FALSE, checks |-> k] : k \in BOOLEAN }

\* values of magnitude 2^27, whose differences up to the third stay within
\* i32 and take five bytes each, with quality words of five bytes
VaryingSamples ==
    { [i32s |-> <<2^27>>, q |-> <<U32(2^28)>>],
      [i32s |-> <<-(2^27)>>, q |-> <<U32(2^29)>>],
      [i32s |-> <<0>>, q |-> <<U32(0)>>] }

InitVarying ==
    /\ CodecInitIn(VaryingConfigurations)
    /\ src = << >>
    /\ runs = 0
    /\ words = << >>
    /\ delivered = << >>
    /\ stage = "idle"
    /\ NoFunctionCalled

\* the caller passes the next sample, which may differ from the last every time
EncodeVarying == EncodeWith(MaxVarying, MaxVarying, VaryingSamples)

NextVarying == EncodeVarying \/ EndEncode

SpecVarying == InitVarying /\ [][NextVarying]_vars

(***************************************************************************)
(* Streams in varint mode without spatial references, whose quality words  *)
(* stay as they are, in arithmetic and in XOR mode.                        *)
(***************************************************************************)

DeltaConfigurations ==
    { [i32_count |-> m, samples_per_message |-> 4, sampling_rate |-> 4000,
       use_xor |-> x, spatial |-> FALSE, checks |-> k] :
        m \in {1, 2}, x \in BOOLEAN, k \in BOOLEAN }

\* samples with the same quality words
DeltaSamples(c) ==
    IF c.i32_count = 1
    THEN { [i32s |-> <<v>>, q |-> <<U32(1)>>] : v \in {0, 5, MinI32} }
    ELSE { [i32s |-> v, q |-> <<U32(1), U32(0)>>] : v \in {<<0, 0>>, <<3, -1>>, <<MaxI32, 2>>} }

InitDelta ==
    /\ CodecInitIn(DeltaConfigurations)
    /\ src = << >>
    /\ runs = 0
    /\ words = << >>
    /\ delivered = << >>
    /\ stage = "idle"
    /\ NoFunctionCalled

EncodeDelta == EncodeWith(MaxSamples, MaxChanges, DeltaSamples(cfg))

NextDelta == EncodeDelta \/ EndEncode \/ Decode

SpecDelta == InitDelta /\ [][NextDelta]_vars

(***************************************************************************)
(* Streams of two variables in Simple-8b mode: messages of 17 samples,     *)
(* completed by encode or ended early.                                     *)
(***************************************************************************)

PackedConfigurations ==
    { [i32_count |-> 2, samples_per_message |-> 17, sampling_rate |-> 4000,
       use_xor |-> FALSE, spatial |-> FALSE, checks |-> FALSE] }

\* samples whose residuals take different widths in the two variables
PackedSamples ==
    { [i32s |-> v, q |-> <<U32(0), U32(1)>>] : v \in {<<0, 0>>, <<1, -70000>>, <<MaxI32, 5>>} }

InitPacked ==
    /\ CodecInitIn(PackedConfigurations)
    /\ src = << >>
    /\ runs = 0
    /\ words = << >>
    /\ delivered = << >>
    /\ stage = "idle"
    /\ NoFunctionCalled

EncodePacked == EncodeWith(MaxPacked, MaxPackedChanges, PackedSamples)

NextPacked == EncodePacked \/ EndEncode \/ Decode

SpecPacked == InitPacked /\ [][NextPacked]_vars

(***************************************************************************)
(* A caller that stamps the samples as it likes: the timestamps need not   *)
(* grow from one sample to the next.                                       *)
(***************************************************************************)

\* the timestamps a caller gives
SampleTimes == {U64(0), U64(258)}

TimedConfigurations ==
    {c \in Configurations : c.i32_count = 1 /\ c.samples_per_message = 4}

\* sample values whose differences fit an i32
TimedSamples == {v \in SampleValues(cfg) : v.i32s[1] # MinI32}

\* the caller passes a sample stamped with any of the timestamps
EncodeAt ==
    /\ ~Aborted
    /\ calls < MaxSamples
    /\ \E v \in TimedSamples, t \in SampleTimes :
        /\ (calls > 0 /\ v # last) => changes < MaxChanges
        /\ \E data \in {[t |-> t, i32s |-> v.i32s, q |-> v.q]} :
           \E r \in {encode(enc, data, cfg.checks)} :
            /\ enc' = r.enc
            /\ ret' = r.buf
            /\ held' = keep_first(held, r)
            /\ msg' = IF pending = 0 THEN <<data>> ELSE Append(msg, data)
            /\ pending' = IF r.buf # << >> THEN 0 ELSE pending + 1
            /\ history' = IF r.buf # << >> THEN history \cup {"frame"} ELSE history
        /\ changes' = IF calls > 0 /\ v # last THEN changes + 1 ELSE changes
        /\ last' = v
    /\ op' = "encode"
    /\ clock' = clock + 1
    /\ calls' = calls + 1
    /\ UNCHANGED <<cfg, dec, res, ends, simple8b_vars, function_vars>>

InitTimed ==
    /\ CodecInitIn(TimedConfigurations)
    /\ src = << >>
    /\ runs = 0
    /\ words = << >>
    /\ delivered = << >>
    /\ stage = "idle"
    /\ NoFunctionCalled

NextTimed == EncodeAt \/ EndEncode \/ CancelEncode

SpecTimed == InitTimed /\ [][NextTimed]_vars

(***************************************************************************)
(* simple8b on its own: a caller builds an array, encodes it with          *)
(* encode_all or encode_all_ref and iterates the words with for_each, as   *)
(* encoding/test.rs does.                                                  *)
(***************************************************************************)

\* the values a caller puts into the array, all below 2^60
Simple8bValues == {U64(0), U64(1), Shl(U64(1), 59)}

\* the length of a run of ones a caller puts into the array
RunOfOnes == [i \in 1..120 |-> U64(1)]

InitSimple8b ==
    /\ CodecInit
    /\ cfg.i32_count = 1 /\ cfg.samples_per_message = 1 /\ ~cfg.checks
    /\ src = << >>
    /\ runs = 0
    /\ words = << >>
    /\ delivered = << >>
    /\ stage = "input"
    /\ NoFunctionCalled

\* the caller appends a value to the array
Push ==
    /\ stage = "input" /\ fn = "none"
    /\ Len(src) - 120 * runs < MaxValues
    /\ \E v \in Simple8bValues : src' = Append(src, v)
    /\ UNCHANGED <<codec_vars, function_vars, runs, words, delivered, stage>>

\* the caller appends 120 ones to the array
PushOnes ==
    /\ stage = "input" /\ fn = "none"
    /\ runs < MaxRuns
    /\ src' = src \o RunOfOnes
    /\ runs' = runs + 1
    /\ UNCHANGED <<codec_vars, function_vars, words, delivered, stage>>

\* the caller encodes the array with encode_all and writes the words big-endian
EncodeAll ==
    /\ stage = "input"
    /\ \E r \in {encode_all(src)} :
        /\ r.ok
        /\ words' = words_to_bytes(r.words)
    /\ stage' = "encoded"
    /\ UNCHANGED <<codec_vars, function_vars, src, runs, delivered>>

\* the caller encodes the array with encode_all_ref into a buffer of the
\* array's length and writes the words big-endian
EncodeAllRef ==
    /\ stage = "input"
    /\ \E r \in {encode_all_ref([i \in 1..Len(src) |-> U64(0)], src)} :
        /\ r.ok /\ ~r.panic
        /\ words' = words_to_bytes(SubSeq(r.dst, 1, r.n))
    /\ stage' = "encoded"
    /\ UNCHANGED <<codec_vars, function_vars, src, runs, delivered>>

\* the caller iterates the words with for_each and a callback returning true
ForEach ==
    /\ stage = "encoded"
    /\ delivered' = for_each(words)
    /\ stage' = "decoded"
    /\ UNCHANGED <<codec_vars, function_vars, src, runs, words>>

NextSimple8b == Push \/ PushOnes \/ EncodeAll \/ EncodeAllRef \/ ForEach

SpecSimple8b == InitSimple8b /\ [][NextSimple8b]_vars

(***************************************************************************)
(* simple8b and values of any size: the array may hold values of 2^60 and  *)
(* above, and the caller takes what encode_all, encode_all_ref or the      *)
(* streaming Encoder return for it.                                        *)
(***************************************************************************)

\* values that do not fit 60 bits: 2^60 and u64::MAX
LargeValues == {Shl(U64(1), 60), NotBits(U64(0))}

\* the caller appends a value of 2^60 or above to the array
PushLarge ==
    /\ stage = "input" /\ fn = "none"
    /\ Len(src) - 120 * runs < MaxValues
    /\ \E v \in LargeValues : src' = Append(src, v)
    /\ UNCHANGED <<codec_vars, function_vars, runs, words, delivered, stage>>

\* the caller encodes the array with encode_all
TryEncodeAll ==
    /\ stage = "input" /\ fn = "none"
    /\ fn' = "encode_all"
    /\ \E r \in {encode_all(src)} :
        val' = [result |-> IF r.ok THEN "ok" ELSE "err",
                bytes |-> IF r.ok THEN words_to_bytes(r.words) ELSE << >>]
    /\ UNCHANGED <<codec_vars, simple8b_vars, arg>>

\* the caller encodes the array with encode_all_ref into a buffer of the
\* array's length
TryEncodeAllRef ==
    /\ stage = "input" /\ fn = "none"
    /\ fn' = "encode_all_ref"
    /\ \E r \in {encode_all_ref([i \in 1..Len(src) |-> U64(0)], src)} :
        val' = [result |-> IF r.panic THEN "panic" ELSE IF r.ok THEN "ok" ELSE "err",
                bytes |-> IF r.ok /\ ~r.panic THEN words_to_bytes(SubSeq(r.dst, 1, r.n))
                          ELSE << >>]
    /\ UNCHANGED <<codec_vars, simple8b_vars, arg>>

\* the caller writes the array value by value to a new simple8b::Encoder and
\* calls bytes()
StreamBytes ==
    /\ stage = "input" /\ fn = "none"
    /\ fn' = "bytes"
    /\ \E e \in {write_each(simple8b_new, src, 1, Len(src))} :
        IF e.panic THEN val' = [result |-> "panic", bytes |-> << >>]
        ELSE \E r \in {simple8b_bytes(e)} :
                val' = [result |-> IF r.ok THEN "ok" ELSE "err", bytes |-> r.bytes]
    /\ UNCHANGED <<codec_vars, simple8b_vars, arg>>

NextSimple8bBounds ==
    \/ Push \/ PushLarge \/ PushOnes
    \/ TryEncodeAll \/ TryEncodeAllRef \/ StreamBytes

SpecSimple8bBounds == InitSimple8b /\ [][NextSimple8bBounds]_vars

(***************************************************************************)
(* The functions of jetstream.rs and encoding/bitops.rs called on their    *)
(* own: a caller holds an input, calls the function on it and, for the     *)
(* writers, calls the reader on what was written.                          *)
(***************************************************************************)

\* the w-bit vectors of 2^k and of 2^k - 1
Pow2(k, w) == Vec([i \in 1..w |-> IF i = k + 1 THEN 1 ELSE 0])

Ones(k, w) == Vec([i \in 1..w |-> IF i <= k THEN 1 ELSE 0])

\* the arguments of create_spatial_refs
SpatialArgs ==
    { [f |-> "create_spatial_refs", count |-> c, count_v |-> v, count_i |-> i,
       include_neutral |-> b] :
        c \in 0..MaxCount, v \in 0..MaxPhases, i \in 0..MaxPhases, b \in BOOLEAN }

\* u32 values around every power of two, up to u32::MAX
U32Values ==
    {Ones(k, 32) : k \in 0..32} \cup {Pow2(k, 32) : k \in 0..31}
        \cup {OrBits(Pow2(k, 32), U32(1)) : k \in 1..31}

\* i32 values around every power of two and its negative, from i32::MIN to i32::MAX
I32Values ==
    {MinI32, MaxI32}
        \cup UNION {{2^k, 2^k - 1, -(2^k), -(2^k) - 1} : k \in 0..30}

\* i64 values: the i32 ones and those around the powers of two above,
\* from i64::MIN to i64::MAX
I64Values ==
    {I32ToBits64(x) : x \in I32Values}
        \cup UNION {{Pow2(k, 64), NotBits(Pow2(k, 64))} : k \in 31..62}
        \cup UNION {{Ones(k, 64), NotBits(Ones(k, 64))} : k \in 31..63}

\* byte chains as a varint reader may receive them: n - 1 bytes with the
\* continuation bit, all payload bits clear or all set, and a last byte
VarintChains ==
    { [i \in 1..n |-> IF i < n THEN 128 + c ELSE b] :
        n \in 1..MaxChain, c \in {0, 127}, b \in {0, 1, 15, 16, 127} }

FunctionArgs ==
    SpatialArgs
        \cup {[f |-> "put_uvarint32", x |-> x] : x \in U32Values}
        \cup {[f |-> "put_varint32", x |-> x] : x \in I32Values}
        \cup {[f |-> "uvarint32", buf |-> b] : b \in VarintChains}
        \cup {[f |-> "zig_zag_encode64", x |-> x] : x \in I64Values}

InitFunctions ==
    /\ CodecInitIn({c \in Configurations : c.i32_count = 1 /\ c.samples_per_message = 1})
    /\ src = << >>
    /\ runs = 0
    /\ words = << >>
    /\ delivered = << >>
    /\ stage = "idle"
    /\ fn = "none"
    /\ arg \in FunctionArgs
    /\ val = << >>

CallCreateSpatialRefs ==
    /\ fn = "none" /\ arg.f = "create_spatial_refs"
    /\ fn' = "create_spatial_refs"
    /\ val' = create_spatial_refs(arg.count, arg.count_v, arg.count_i, arg.include_neutral)
    /\ UNCHANGED <<codec_vars, simple8b_vars, arg>>

CallPutUvarint32 ==
    /\ fn = "none" /\ arg.f = "put_uvarint32"
    /\ fn' = "put_uvarint32"
    /\ val' = [buf |-> put_uvarint32(arg.x)]
    /\ UNCHANGED <<codec_vars, simple8b_vars, arg>>

CallPutVarint32 ==
    /\ fn = "none" /\ arg.f = "put_varint32"
    /\ fn' = "put_varint32"
    /\ val' = [buf |-> put_varint32(arg.x)]
    /\ UNCHANGED <<codec_vars, simple8b_vars, arg>>

\* uvarint32 on the bytes put_uvarint32 wrote, or on a chain received
CallUvarint32 ==
    /\ \/ fn = "put_uvarint32"
       \/ fn = "none" /\ arg.f = "uvarint32"
    /\ fn' = "uvarint32"
    /\ \E b \in {IF fn = "none" THEN arg.buf ELSE val.buf} :
        val' = [buf |-> b, read |-> uvarint32(b, cfg.checks)]
    /\ UNCHANGED <<codec_vars, simple8b_vars, arg>>

\* varint32 on the bytes put_varint32 wrote
CallVarint32 ==
    /\ fn = "put_varint32"
    /\ fn' = "varint32"
    /\ val' = [buf |-> val.buf, read |-> varint32(val.buf, cfg.checks)]
    /\ UNCHANGED <<codec_vars, simple8b_vars, arg>>

CallZigZagEncode64 ==
    /\ fn = "none" /\ arg.f = "zig_zag_encode64"
    /\ fn' = "zig_zag_encode64"
    /\ val' = [v |-> zig_zag_encode64(arg.x)]
    /\ UNCHANGED <<codec_vars, simple8b_vars, arg>>

CallZigZagDecode64 ==
    /\ fn = "zig_zag_encode64"
    /\ fn' = "zig_zag_decode64"
    /\ val' = [v |-> val.v, x |-> zig_zag_decode64(val.v)]
    /\ UNCHANGED <<codec_vars, simple8b_vars, arg>>

NextFunctions ==
    \/ CallCreateSpatialRefs
    \/ CallPutUvarint32 \/ CallUvarint32
    \/ CallPutVarint32 \/ CallVarint32
    \/ CallZigZagEncode64 \/ CallZigZagDecode64

SpecFunctions == InitFunctions /\ [][NextFunctions]_vars

(***************************************************************************)
(* simple8b, one word of each selector from 2 to 15: arrays of exactly as  *)
(* many values as the selector holds, of the selector's width.             *)
(***************************************************************************)

\* the selector that holds n values
SelectorOf(n) == CHOOSE s \in 0..15 : SELECTOR[s+1].n = n

\* arrays of SELECTOR[s].n values below 2^SELECTOR[s].bit: all bits set, the
\* index, the top bit alternating with one, and one bit moving with the index
PackingArrays ==
    UNION { LET n == SELECTOR[s+1].n
                b == SELECTOR[s+1].bit
            IN  { [k \in 1..n |-> Ones(b, 64)],
                  [k \in 1..n |-> U64(IF b < 6 THEN (k - 1) % (2^b) ELSE k - 1)],
                  [k \in 1..n |-> IF k % 2 = 1 THEN Pow2(b - 1, 64) ELSE U64(1)],
                  [k \in 1..n |-> Pow2((k - 1) % b, 64)] } : s \in 2..15 }

InitPacking ==
    /\ CodecInit
    /\ cfg.i32_count = 1 /\ cfg.samples_per_message = 1 /\ ~cfg.checks
    /\ src \in PackingArrays
    /\ runs = 0
    /\ words = << >>
    /\ delivered = << >>
    /\ stage = "input"
    /\ NoFunctionCalled

NextPacking == EncodeAll \/ EncodeAllRef \/ ForEach

SpecPacking == InitPacking /\ [][NextPacking]_vars

(***************************************************************************)
(* simple8b: counting the values of an encoded array within a range.       *)
(***************************************************************************)

\* the values a caller counts among
CountValues == {U64(0), U64(1), U64(7), Pow2(59, 64)}

\* arrays of up to MaxValues values, before or after one or two runs of ones
CountArrays ==
    LET short == UNION { [1..n -> CountValues] : n \in 0..MaxValues }
        ones == { [i \in 1..(120 * r) |-> U64(1)] : r \in 1..MaxRuns }
    IN  short \cup ones
        \cup { o \o <<v>> : o \in ones, v \in CountValues }
        \cup { <<v>> \o o : o \in ones, v \in CountValues }

\* the bounds of the range: min < max
CountBounds == {U64(0), U64(1), U64(2), Pow2(59, 64), OrBits(Pow2(59, 64), U64(1))}

InitCount ==
    /\ CodecInitIn({c \in Configurations : c.i32_count = 1 /\ c.samples_per_message = 1})
    /\ src \in CountArrays
    /\ runs = 0
    /\ words = << >>
    /\ delivered = << >>
    /\ stage = "input"
    /\ NoFunctionCalled

\* the caller counts the values of the encoded array that lie in [min, max)
CountBytesBetween ==
    /\ stage = "encoded" /\ fn = "none"
    /\ \E min \in CountBounds, max \in CountBounds :
        /\ LtBits(min, max)
        /\ fn' = "count_bytes_between"
        /\ arg' = [min |-> min, max |-> max]
        /\ val' = count_bytes_between(words, min, max, cfg.checks)
    /\ UNCHANGED <<codec_vars, simple8b_vars>>

NextCount == EncodeAll \/ EncodeAllRef \/ CountBytesBetween

SpecCount == InitCount /\ [][NextCount]_vars

(***************************************************************************)
(* simple8b: the streaming Decoder.  next() advances i and, when i has     *)
(* reached n, calls read(), the getter that returns buf[i]; _read(), which *)
(* takes the next word off bytes and unpacks it into buf, has no caller.   *)
(***************************************************************************)

\* Decoder::new: no word is unpacked yet
decoder_new(bytes) ==
    [bytes |-> bytes, buf |-> [k \in 1..240 |-> U64(0)], i |-> 0, n |-> 0]

\* Decoder::read: buf[i], an index out of bounds abort when i is 240 or more
decoder_read(d) ==
    IF d.i >= 240 THEN [panic |-> TRUE, v |-> U64(0)]
    ELSE [panic |-> FALSE, v |-> d.buf[d.i + 1]]

\* Decoder::next: [d |-> the decoder after the call, panic, ret]
decoder_next(d0) ==
    LET d == [d0 EXCEPT !.i = @ + 1]
    IN  [d |-> d,
         panic |-> d.i >= d.n /\ decoder_read(d).panic,
         ret |-> Len(d.bytes) >= 8 \/ d.i < d.n]

\* the arrays a caller encodes and then iterates
DecoderArrays ==
    {<< >>, <<U64(7)>>, <<U64(0), U64(7)>>, <<U64(1), U64(2), U64(3)>>,
     [k \in 1..20 |-> U64(2)], RunOfOnes \o RunOfOnes, RunOfOnes \o <<U64(7)>>}

InitDecoder ==
    /\ CodecInitIn({c \in Configurations : c.i32_count = 1 /\ c.samples_per_message = 1})
    /\ src \in DecoderArrays
    /\ runs = 0
    /\ words = << >>
    /\ delivered = << >>
    /\ stage = "input"
    /\ NoFunctionCalled

\* the caller makes a Decoder over the encoded bytes, or over fewer than 8
\* bytes: none, or the first 7 of them
DecoderNew ==
    /\ stage = "encoded" /\ fn = "none"
    /\ \E b \in {words, << >>, SubSeq(words, 1, IF Len(words) < 7 THEN Len(words) ELSE 7)} :
        /\ arg' = b
        /\ val' = [d |-> decoder_new(b), nexts |-> 0, ret |-> FALSE,
                   value |-> U64(0), result |-> "ok"]
    /\ fn' = "new"
    /\ UNCHANGED <<codec_vars, simple8b_vars>>

\* the caller calls next(); val.nexts counts the calls
DecoderNext ==
    /\ fn \in {"new", "next", "read"} /\ val.result = "ok"
    /\ val.nexts < MaxNext
    /\ \E r \in {decoder_next(val.d)} :
        val' = [val EXCEPT !.d = r.d, !.nexts = @ + 1, !.ret = r.ret /\ ~r.panic,
                           !.result = IF r.panic THEN "panic" ELSE "ok"]
    /\ fn' = "next"
    /\ UNCHANGED <<codec_vars, simple8b_vars, arg>>

\* the caller calls read() after a call of next()
DecoderRead ==
    /\ fn = "next" /\ val.result = "ok"
    /\ \E r \in {decoder_read(val.d)} :
        val' = [val EXCEPT !.value = r.v,
                           !.result = IF r.panic THEN "panic" ELSE "ok"]
    /\ fn' = "read"
    /\ UNCHANGED <<codec_vars, simple8b_vars, arg>>

NextDecoder == EncodeAll \/ EncodeAllRef \/ DecoderNew \/ DecoderNext \/ DecoderRead

SpecDecoder == InitDecoder /\ [][NextDecoder]_vars

(***************************************************************************)
(* The loops of decode_to_buffer, pass by pass, over any payload.  Only    *)
(* what steers the loops is kept: the offset into the payload and the      *)
(* counters; the values written to out are those of decode_payload above.  *)
(* st = [pc, length, i, n]: pc names the loop, length is the offset, i the *)
(* variable, n the counter of the loop (decode_counter, total_samples or   *)
(* sample_number).  a = [body, actual_samples, i32_count, using_simple8b]. *)
(***************************************************************************)

\* one pass of `while b.len() >= 8` of for_each with the decoder's callback
word_pass(st, a) ==
    IF Len(a.body) - st.length < 8
    THEN [st EXCEPT !.pc = "quality", !.i = 0, !.n = 0]
    ELSE LET n == SELECTOR[selector_at(a.body, st.length \div 8 + 1) + 1].n
         IN  \* decode_counter % actual_samples
             IF a.actual_samples = 0 THEN [st EXCEPT !.pc = "aborted"]
             ELSE IF st.n + n >= a.actual_samples * a.i32_count
                  THEN [st EXCEPT !.pc = "quality", !.length = st.length + 8,
                                  !.i = 0, !.n = 0]
                  ELSE [st EXCEPT !.length = st.length + 8, !.n = st.n + n]

\* the offset after k varints read from offset pos: [length, panic]
RECURSIVE read_varints(_, _, _, _)
read_varints(body, pos, k, checks) ==
    IF k <= 0 THEN [length |-> pos, panic |-> FALSE]
    ELSE Bind(varint32(SubSeq(body, pos + 1, Len(body)), checks), LAMBDA r :
            IF r.panic THEN [length |-> pos, panic |-> TRUE]
            ELSE read_varints(body, pos + r.n, k - 1, checks))

\* the loop over the first set of samples, and one pass of the `loop` over
\* the remaining ones
sample_pass(st, a, checks) ==
    Bind(read_varints(a.body, st.length, a.i32_count, checks), LAMBDA r :
        IF r.panic THEN [st EXCEPT !.pc = "aborted"]
        ELSE IF st.pc = "first"
        THEN [st EXCEPT !.length = r.length, !.n = IF a.actual_samples > 1 THEN 1 ELSE 0,
                        !.pc = IF a.actual_samples > 1 THEN "remaining" ELSE "quality"]
        ELSE IF st.n + 1 >= a.actual_samples
             THEN [st EXCEPT !.length = r.length, !.pc = "quality", !.n = 0]
             ELSE [st EXCEPT !.length = r.length, !.n = st.n + 1])

\* a pass of the quality loop that reads on at the same sample after a run of 0
quality_pass_ignores_zero(st, a, checks) ==
    IF st.i >= a.i32_count THEN [st EXCEPT !.pc = "returned"]
    ELSE IF st.n >= a.actual_samples THEN [st EXCEPT !.i = st.i + 1, !.n = 0]
    ELSE Bind(uvarint32(SubSeq(a.body, st.length + 1, Len(a.body)), checks), LAMBDA v :
         Bind(uvarint32(SubSeq(a.body, st.length + v.n + 1, Len(a.body)), checks), LAMBDA r :
            IF v.panic \/ r.panic THEN [st EXCEPT !.pc = "aborted"]
            ELSE [st EXCEPT !.length = st.length + v.n + r.n,
                            !.n = st.n + run_length(r.val)]))

\* one pass of `while sample_number < actual_samples`, or the step of
\* `for i in 0..self.i32_count` to the next variable or to the return
quality_pass(st, a, checks) ==
    IF st.i >= a.i32_count THEN [st EXCEPT !.pc = "returned"]
    ELSE IF st.n >= a.actual_samples THEN [st EXCEPT !.i = st.i + 1, !.n = 0]
    ELSE Bind(uvarint32(SubSeq(a.body, st.length + 1, Len(a.body)), checks), LAMBDA v :
         Bind(uvarint32(SubSeq(a.body, st.length + v.n + 1, Len(a.body)), checks), LAMBDA r :
            IF v.panic \/ r.panic THEN [st EXCEPT !.pc = "aborted"]
            ELSE [st EXCEPT !.length = st.length + v.n + r.n,
                            !.n = IF run_length(r.val) = 0 THEN a.actual_samples
                                  ELSE st.n + run_length(r.val)]))

\* payloads: every string of up to MaxBody bytes over a few byte values, and
\* strings that hold Simple-8b words or a varint that overflows
BodyBytes == {0, 1, 2, 128}

WordOfOne == <<240, 0, 0, 0, 0, 0, 0, 7>>

WordOfTwo == <<224, 0, 0, 0, 0, 0, 0, 7>>

Bodies ==
    UNION { [1..n -> BodyBytes] : n \in 0..MaxBody }
    \cup { WordOfOne, WordOfTwo, Zeros(8), WordOfOne \o WordOfOne,
           WordOfTwo \o <<1, 0>>, WordOfOne \o WordOfTwo \o <<2, 0, 1>>,
           Zeros(8) \o <<128>>, WordOfTwo \o WordOfTwo \o Zeros(16),
           <<128, 128, 128, 128, 128, 1>>,
           <<0, 128, 128, 128, 128, 128, 128, 128, 128, 128, 2>> }

InitLoops ==
    /\ CodecInitIn(Configurations)
    /\ src = << >>
    /\ runs = 0
    /\ words = << >>
    /\ delivered = << >>
    /\ stage = "idle"
    /\ NoFunctionCalled

\* decode_to_buffer has read the header of a frame with this payload
DecodeBody ==
    /\ fn = "none"
    /\ \E body \in Bodies, n \in {0, 1, 2, dec.samples_per_message} :
        /\ n <= dec.samples_per_message
        /\ arg' = [body |-> body, actual_samples |-> n, i32_count |-> dec.i32_count,
                   using_simple8b |-> dec.using_simple8b]
    /\ val' = [pc |-> IF dec.using_simple8b THEN "words" ELSE "first",
               length |-> 0, i |-> 0, n |-> 0]
    /\ fn' = "decode_to_buffer"
    /\ UNCHANGED <<codec_vars, simple8b_vars>>

\* decode_to_buffer makes one more pass of the loop it is in
DecodePass ==
    /\ fn = "decode_to_buffer"
    /\ val.pc \notin {"returned", "aborted"}
    /\ val' = IF val.pc = "words" THEN word_pass(val, arg)
              ELSE IF val.pc \in {"first", "remaining"} THEN sample_pass(val, arg, cfg.checks)
              ELSE quality_pass(val, arg, cfg.checks)
    /\ UNCHANGED <<codec_vars, simple8b_vars, fn, arg>>

NextLoops == DecodeBody \/ DecodePass

\* the call runs on: decode_to_buffer is synchronous
SpecLoops == InitLoops /\ [][NextLoops]_vars /\ WF_vars(NextLoops)

(***************************************************************************)
(* Properties of the encoder and the decoder.                              *)
(***************************************************************************)

\* the message ret carries is complete: encode returned it on the N-th sample
CompleteMessage == Len(msg) = cfg.samples_per_message

\* C1: round-trip identity: a frame returned by encode and passed to
\* decode_to_buffer is decoded without error, and out holds the samples of the
\* message in order, the values and the qualities of every variable.
C1_RoundTrip ==
    (op = "decode" /\ CompleteMessage) =>
        /\ res = "ok"
        /\ \A k \in 1..Len(msg) :
            /\ dec.out[k].i32s = msg[k].i32s
            /\ dec.out[k].q = msg[k].q

\* a complete message was decoded and a sample came out differing from the input
C1_Differs ==
    /\ op = "decode" /\ CompleteMessage /\ res = "ok"
    /\ \E k \in 1..Len(msg) : dec.out[k].i32s # msg[k].i32s \/ dec.out[k].q # msg[k].q

\* C2: quality RLE law: after a message of N samples is encoded and decoded,
\* out[k].q[i] is the quality passed with sample k for variable i, for every k
\* and i, whatever the runs of the quality sequence are.
C2_QualityRLE ==
    (op = "decode" /\ CompleteMessage /\ res = "ok") =>
        \A k \in 1..Len(msg) : \A i \in 1..cfg.i32_count :
            dec.out[k].q[i] = msg[k].q[i]

\* a quality run of two samples that starts after sample 0 and is not the last
\* run was decoded, and its second sample has another quality than was passed
C2_RunLost ==
    /\ op = "decode" /\ CompleteMessage /\ res = "ok"
    /\ cfg.samples_per_message = 4 /\ cfg.i32_count = 1
    /\ msg[2].q = msg[3].q /\ msg[1].q # msg[2].q /\ msg[3].q # msg[4].q
    /\ dec.out[3].q # msg[3].q

\* C3: Simple-8b round trip: the words encode_all or encode_all_ref produce for
\* an array of values below 2^60, written big-endian and iterated by for_each
\* with a callback that returns true, deliver the values of the array in order.
C3_Simple8bRoundTrip == stage = "decoded" => delivered = src

\* an array of 120 ones was encoded and for_each delivered 120 zeros
C3_OnesLost ==
    /\ stage = "decoded" /\ src = RunOfOnes
    /\ Len(words) = 8
    /\ delivered = [i \in 1..120 |-> U64(0)]

\* C4: decode_to_buffer called with a frame whose first 16 bytes are not the
\* decoder's id returns an error to its caller: it neither aborts nor returns Ok.
C4_IdMismatchIsError == op = "decode_foreign" => res = "err"

\* a frame of another stream was passed and the call aborted
C4_Aborts == op = "decode_foreign" /\ res = "panic" /\ dec.panic

\* C5: decode_to_buffer called with a frame of another id leaves out,
\* start_timestamp, encoded_samples and delta_sum of the decoder as they were.
C5_IdMismatchKeepsState ==
    [][op' = "decode_foreign" =>
        /\ dec'.out = dec.out
        /\ dec'.start_timestamp = dec.start_timestamp
        /\ dec'.encoded_samples = dec.encoded_samples
        /\ dec'.delta_sum = dec.delta_sum]_vars

\* a decoder that holds an earlier message was passed a frame of another id,
\* carrying another timestamp and another number of samples
C5_Passed ==
    /\ op = "decode_foreign"
    /\ dec.encoded_samples > 0
    /\ dec.encoded_samples # Len(msg)
    /\ dec.start_timestamp # msg[1].t

\* C6: header invariance: every non-empty buffer that encode or end_encode
\* returns starts with the 16 bytes of the id, followed by the timestamp of the
\* first sample of the message as 8 big-endian bytes.
C6_Header ==
    FrameReturned =>
        /\ Len(ret) >= 24
        /\ SubSeq(ret, 1, 16) = ID
        /\ Len(msg) > 0 => from_be_bytes(SubSeq(ret, 17, 24)) = msg[1].t

\* end_encode returned a non-empty buffer that does not start with the id
C6_NoHeader == op = "end_encode" /\ pending = 0 /\ msg = << >> /\ ret # << >>
               /\ Len(ret) < 16

\* the encoder of configuration c after the first n samples of ss
RECURSIVE FedEncoder(_, _, _)
FedEncoder(c, ss, n) ==
    IF n = 0 THEN ConfiguredEncoder(c)
    ELSE Bind(FedEncoder(c, ss, n - 1), LAMBDA e : encode(e, ss[n], c.checks).enc)

\* what a newly constructed encoder returns for the message msg: from the
\* encode of its last sample, or from the end_encode that follows it
FreshFrame ==
    IF op = "end_encode"
    THEN end_encode(FedEncoder(cfg, msg, Len(msg))).buf
    ELSE encode(FedEncoder(cfg, msg, Len(msg) - 1), msg[Len(msg)], cfg.checks).buf

\* C7: idempotent reset: every frame the encoder returns, whatever messages it
\* encoded, ended or cancelled before, is byte for byte the frame a newly
\* constructed encoder of the same configuration returns for the same samples.
C7_IdempotentReset == FrameReturned => ret = FreshFrame

\* a frame of two or more samples was returned by an encoder that cancelled a
\* message before and whose buffers were both written
C7_AfterCancel ==
    /\ FrameReturned /\ Len(msg) >= 2
    /\ "cancel_encode" \in history
    /\ enc.buf_a # ConfiguredEncoder(cfg).buf_a
    /\ enc.buf_b # ConfiguredEncoder(cfg).buf_b

\* what a newly constructed decoder makes of the frame ret
DecodedByFresh == decode_to_buffer(ConfiguredDecoder(cfg), ret, cfg.checks)

\* C8: the decoder is stateless across messages: after a frame is decoded, the
\* values and qualities of its samples in out are those a newly constructed
\* decoder yields for the frame, whatever frames the decoder decoded before.
C8_Stateless ==
    (op = "decode" /\ res = "ok") =>
        \E f \in {DecodedByFresh} :
            /\ f.result = "ok"
            /\ \A k \in 1..Len(msg) :
                /\ dec.out[k].i32s = f.dec.out[k].i32s
                /\ dec.out[k].q = f.dec.out[k].q

\* a decoder that decoded an earlier frame holds, for a sample of the frame,
\* a quality that a newly constructed decoder does not yield
C8_StaleQuality ==
    /\ op = "decode" /\ res = "ok" /\ "end_encode" \in history
    /\ \E k \in 1..Len(msg) : dec.out[k].q # DecodedByFresh.dec.out[k].q

\* C9: encoded_samples is within 0..N in every state, and is 0 right after
\* end_encode, after cancel_encode, and after an encode that returned a frame.
C9_EncodedSamples ==
    /\ enc.encoded_samples \in 0..cfg.samples_per_message
    /\ (op \in {"end_encode", "cancel_encode"} \/ (op = "encode" /\ ret # << >>))
        => enc.encoded_samples = 0

\* end_encode ended a message of two or more samples before the N-th
C9_EndedEarly ==
    /\ op = "end_encode" /\ Len(msg) >= 2 /\ Len(msg) < cfg.samples_per_message
    /\ ret # << >>

CountField == varint32(SubSeq(ret, 25, Len(ret)), FALSE).val

\* C11: the sample-count field of every frame returned, the signed varint at
\* offset 24, is the number of encode calls made since the last frame,
\* end_encode or cancel_encode.
C11_SampleCount == FrameReturned => (Len(ret) >= 25 /\ CountField = Len(msg))

\* end_encode without samples returned a buffer that starts with the count 0
\* and ends before offset 24
C11_CountAtStart ==
    /\ op = "end_encode" /\ msg = << >>
    /\ Len(ret) = 1 + 2 * cfg.i32_count
    /\ varint32(ret, FALSE).val = 0

\* C12: end_encode on an encoder without accumulated samples returns a frame
\* made of the header only (id, timestamp, count 0), and decode_to_buffer of
\* the matching decoder returns Ok for it.
C12_EmptyInput ==
    /\ (op = "end_encode" /\ msg = << >>) =>
            /\ Len(ret) >= 25
            /\ SubSeq(ret, 1, 16) = ID
            /\ CountField = 0
    /\ (op = "decode" /\ msg = << >>) => res = "ok"

\* the buffer end_encode returned without samples was passed to the decoder,
\* which aborted
C12_DecodeAborts == op = "decode" /\ msg = << >> /\ res = "panic" /\ Len(ret) < 16

\* C14: with spatial references set, after a frame of one or more samples is
\* decoded, out[j].i32s[i] is the value passed to the encoder, for every
\* sample j of the frame and every variable i that has a reference.
C14_SpatialFixup ==
    (op = "decode" /\ res = "ok" /\ cfg.spatial) =>
        \A j \in 1..Len(msg) : \A i \in 1..cfg.i32_count :
            dec.spatial_ref[i] >= 0 => dec.out[j].i32s[i] = msg[j].i32s[i]

\* a frame of one sample was decoded in varint mode and the variable with a
\* reference holds the difference to its reference, not the value passed
C14_NotAdded ==
    /\ op = "decode" /\ res = "ok" /\ cfg.spatial /\ ~dec.using_simple8b
    /\ Len(msg) = 1 /\ dec.spatial_ref[4] = 0
    /\ msg[1].i32s[1] # 0
    /\ dec.out[1].i32s[4] = WrappingSub(msg[1].i32s[4], msg[1].i32s[1])

\* delta_sum of the decoder is zero throughout
DeltaSumZero == \A k \in 1..Len(dec.delta_sum) : \A i \in 1..cfg.i32_count : dec.delta_sum[k][i] = 0

\* C13: delta_sum is entirely zero whenever decode_to_buffer has returned, Ok
\* or an error, and so at the start of every call, after any sequence of
\* decoded frames.
C13_DeltaSumZero == ~dec.panic => DeltaSumZero

\* decode_to_buffer returned the gzip error after a frame with changing
\* values had been decoded
C13_AfterGzipError ==
    /\ op = "decode_overstated" /\ res = "err"
    /\ Len(msg) >= 2 /\ dec.out[2].i32s # dec.out[1].i32s

\* C15: create_spatial_refs returns a vector of length count whose entry i is
\* i - inc (inc = 4 with a neutral, 3 without) exactly when
\* inc <= i < count_v * inc or (count_v + 1) * inc <= i < (count_v + count_i) * inc,
\* and None otherwise; every set entry lies in 0 .. i - 1.
C15_SpatialRefs ==
    fn = "create_spatial_refs" =>
        LET inc == IF arg.include_neutral THEN 4 ELSE 3
        IN  /\ Len(val) = arg.count
            /\ \A k \in 1..Len(val) :
                LET i == k - 1
                IN  IF \/ inc <= i /\ i < arg.count_v * inc
                       \/ (arg.count_v + 1) * inc <= i /\ i < (arg.count_v + arg.count_i) * inc
                    THEN val[k] = i - inc /\ 0 <= val[k] /\ val[k] < i
                    ELSE val[k] = -1

\* both ranges hold variables, with the gap between them: 2 voltages and
\* 2 currents of three phases among 12 variables
C15_BothRanges ==
    /\ fn = "create_spatial_refs"
    /\ arg.count = 12 /\ arg.count_v = 2 /\ arg.count_i = 2 /\ ~arg.include_neutral
    /\ val[4] = 0 /\ val[6] = 2 /\ val[7] = -1 /\ val[9] = -1 /\ val[10] = 6 /\ val[12] = 8

\* C16: put_uvarint32 writes between 1 and 5 bytes for every u32 x and
\* uvarint32 reads (x, n) from them; put_varint32 followed by varint32
\* returns (x, n) for every i32 x.
C16_VarintRoundTrip ==
    /\ (fn = "uvarint32" /\ arg.f = "put_uvarint32") =>
            /\ Len(val.buf) \in 1..5
            /\ ~val.read.panic
            /\ val.read.val = arg.x
            /\ val.read.n = Len(val.buf)
    /\ fn = "varint32" =>
            /\ ~val.read.panic
            /\ val.read.val = arg.x
            /\ val.read.n = Len(val.buf)

\* i32::MIN was written in five bytes and read back
C16_MinRead ==
    /\ fn = "varint32" /\ arg.x = MinI32
    /\ val.buf = <<255, 255, 255, 255, 15>>
    /\ val.read.val = MinI32 /\ val.read.n = 5

\* the chain b encodes a value that does not fit 32 bits: a fifth byte above
\* 0x0F, or six bytes or more
Overflows32(b) == Len(b) >= 6 \/ (Len(b) = 5 /\ b[5] > 15)

\* C17: uvarint32 fails on every input that overflows 32 bits; it never
\* returns a truncated value.
C17_OverflowIsError ==
    (fn = "uvarint32" /\ arg.f = "uvarint32" /\ Overflows32(arg.buf)) => val.read.panic

\* five bytes with the fifth 0x10 were read as 2^28 - 1 in five bytes
C17_Truncated ==
    /\ fn = "uvarint32" /\ arg.f = "uvarint32"
    /\ arg.buf = <<255, 255, 255, 255, 16>>
    /\ ~val.read.panic /\ val.read.n = 5 /\ val.read.val = Ones(28, 32)

\* C18: zig_zag_decode64(zig_zag_encode64(x)) = x for every i64 x;
\* zig_zag_encode64 maps x >= 0 to 2x and x < 0 to -2x - 1, so that the
\* image of every i32 is at most 2^32 - 1.
C18_ZigZag ==
    /\ fn = "zig_zag_decode64" => val.x = arg.x
    /\ fn = "zig_zag_encode64" =>
        \* 2x is x shifted by one bit, -2x - 1 its complement
        /\ val.v = IF arg.x[64] = 0 THEN Shl(arg.x, 1) ELSE NotBits(Shl(arg.x, 1))
        \* as numbers, where both sides stay below 2^31
        /\ \A n \in I32Values :
            (arg.x = I32ToBits64(n) /\ n < 2^29 /\ n > -(2^29)) =>
                BitsToNat(val.v) = IF n >= 0 THEN 2 * n ELSE -2 * n - 1
        /\ (\A i \in 32..64 : arg.x[i] = arg.x[32]) => ~AtLeastPow2(val.v, 32)

\* i64::MIN was mapped to u64::MAX and back
C18_MinMapped ==
    /\ fn = "zig_zag_decode64"
    /\ arg.x = Pow2(63, 64)
    /\ val.v = Ones(64, 64)
    /\ val.x = arg.x

\* the array holds a value above 2^60 - 1
HoldsLarge == \E i \in 1..Len(src) : AtLeastPow2(src[i], 60)

\* C19: encode_all, encode_all_ref and bytes() of the streaming Encoder return
\* the error "value out of bounds" exactly when the input holds a value above
\* 2^60 - 1, wherever it sits, and succeed for every other input.
C19_OutOfBounds ==
    fn \in {"encode_all", "encode_all_ref", "bytes"} =>
        val.result = IF HoldsLarge THEN "err" ELSE "ok"

\* a zero followed by 240 ones was written to the streaming Encoder, which
\* aborted in write
C19_WriteAborts ==
    /\ fn = "bytes" /\ val.result = "panic"
    /\ src = <<U64(0)>> \o RunOfOnes \o RunOfOnes

\* C20: a frame returned by encode or end_encode is not changed by any later
\* call on the same encoder: its bytes and its length stay as returned.
C20_FrameKept ==
    held.frame.storage # "none" =>
        /\ read_frame(enc, held.frame) = held.returned
        /\ held.frame.len = Len(held.returned)

\* after the frame was returned the encoder has filled a message in each of
\* its two buffers and has started the next
C20_BuffersReused ==
    /\ held.frame.storage # "none" /\ Len(held.returned) >= 25
    /\ cfg.samples_per_message = 1 /\ calls >= 4 /\ pending = 0
    /\ "cancel_encode" \in history
    /\ SubSeq(enc.buf_a, 1, Len(held.returned)) # held.returned
    /\ SubSeq(enc.buf_b, 1, Len(held.returned)) # held.returned

\* C21: encode signals a contract violation for every sample whose i32s or q
\* does not have M entries; none is accepted and staged into the message.
C21_MalformedRejected == op = "encode_malformed" => enc.panic

\* a sample with one value too few was accepted and counted
C21_ShortAccepted ==
    /\ op = "encode_malformed" /\ ~enc.panic
    /\ cfg.i32_count = 4 /\ Len(msg) = 2
    /\ Len(msg[2].i32s) = 3 /\ Len(msg[2].q) = 4
    /\ ret # << >>

\* C22: the output buffer of the encoder is never exhausted: no write of
\* encode or _end_encode passes buf_size = MAX_HEADER_SIZE + N*M*8 + M*4,
\* whatever the values and the quality words are.
C22_BufferSuffices == ~enc.panic

\* in the build without overflow checks, the last sample of a message whose
\* samples all differed completed it, and a write passed the end of the buffer
C22_Exhausted ==
    /\ enc.panic /\ ~cfg.checks /\ op = "encode"
    /\ calls = MaxVarying /\ ends = 0 /\ changes = MaxVarying - 1
    /\ Len(buf(enc)) = MAX_HEADER_SIZE + MaxVarying * 8 + 4

\* the payload body of the frame ret: what follows the header and the count
Body == SubSeq(ret, 25 + varint32(SubSeq(ret, 25, Len(ret)), FALSE).n, Len(ret))

Adjusted(k, i) ==
    IF enc.spatial_ref[i] >= 0
    THEN WrappingSub(msg[k].i32s[i], msg[k].i32s[enc.spatial_ref[i] + 1])
    ELSE msg[k].i32s[i]

\* the difference of order n of variable i at sample k > n of the message
RECURSIVE Difference(_, _, _)
Difference(n, k, i) ==
    IF n = 0 THEN Adjusted(k, i)
    ELSE IF cfg.use_xor THEN Xor32(Difference(n - 1, k, i), Difference(n - 1, k - 1, i))
    ELSE WrappingSub(Difference(n - 1, k, i), Difference(n - 1, k - 1, i))

\* what the encoder has staged for variable i at sample k of the message
Staged(k, i) == IF enc.using_simple8b THEN enc.diffs[i][k] ELSE enc.values[k][i]

\* the form in which the residual r is staged
AsStaged(r) == IF enc.using_simple8b THEN zig_zag_encode64(I32ToBits64(r)) ELSE r

\* C24: with three layers, the residual staged at sample index j of a message
\* is the spatially adjusted value at j = 0 and the difference of order
\* min(j, 3) at j >= 1, by subtraction or by XOR, within the message.
C24_DeltaCascade ==
    (op = "encode" /\ ~enc.panic /\ enc.delta_encoding_layers = 3) =>
        \A k \in 1..Len(msg) : \A i \in 1..cfg.i32_count :
            Staged(k, i) = AsStaged(Difference(IF k - 1 < 3 THEN k - 1 ELSE 3, k, i))

\* a fifth sample was staged, after samples that differed, in a message whose
\* fourth residual is a third difference other than zero
C24_ThirdDifference ==
    /\ op = "encode" /\ ~enc.panic /\ enc.delta_encoding_layers = 3
    /\ Len(msg) = 5 /\ changes = 2
    /\ Difference(3, 4, 1) # 0
    /\ Staged(5, 1) = AsStaged(Difference(3, 5, 1))

\* C25: without spatial references and with constant quality, in varint mode,
\* a frame of 1 to N samples is decoded without error and every value of
\* every sample comes out as it was passed, in arithmetic and in XOR mode.
C25_CascadeInverse ==
    (op = "decode" /\ Len(msg) >= 1) =>
        /\ res = "ok"
        /\ \A k \in 1..Len(msg) : dec.out[k].i32s = msg[k].i32s

\* in XOR mode a full message whose values changed twice was decoded
C25_XorDecoded ==
    /\ op = "decode" /\ res = "ok" /\ cfg.use_xor
    /\ Len(msg) = cfg.samples_per_message /\ msg[1].i32s # msg[2].i32s
    /\ msg[2].i32s # msg[4].i32s /\ msg[1].i32s # msg[4].i32s
    /\ dec.out[4].i32s = msg[4].i32s

\* the n values of vals after position i exist and fit selector s: ones for
\* the selectors 0 and 1, values below 2^bits for the others
Fits(vals, i, s) ==
    /\ i + SELECTOR[s+1].n <= Len(vals)
    /\ \A k \in 1..SELECTOR[s+1].n :
        IF SELECTOR[s+1].bit = 0 THEN vals[i + k] = U64(1)
        ELSE ~AtLeastPow2(vals[i + k], SELECTOR[s+1].bit)

\* the selectors of the greedy widest-first packing of vals from position i on
RECURSIVE GreedySelectors(_, _)
GreedySelectors(vals, i) ==
    IF i >= Len(vals) \/ \A s \in 0..15 : ~Fits(vals, i, s) THEN << >>
    ELSE LET sel == CHOOSE s \in 0..15 : Fits(vals, i, s) /\ \A r \in 0..(s - 1) : ~Fits(vals, i, r)
         IN  <<sel>> \o GreedySelectors(vals, i + SELECTOR[sel+1].n)

\* the selectors of the words written: the top four bits of each
WordSelectors == [w \in 1..(Len(words) \div 8) |-> words[8 * w - 7] \div 16]

\* C26: encode_all and encode_all_ref pack greedily, widest first: at each
\* position the word has the first selector whose number of values remains
\* and fits, whatever follows those values.
C26_GreedyWidestFirst ==
    stage \in {"encoded", "decoded"} => WordSelectors = GreedySelectors(src, 0)

\* 120 ones followed by another value were encoded, and the first word holds
\* 60 values of one bit instead of the run of 120 ones
C26_RunRefused ==
    /\ stage = "encoded"
    /\ Len(src) = 121 /\ SubSeq(src, 1, 120) = RunOfOnes /\ src[121] = U64(0)
    /\ GreedySelectors(src, 0) = <<1, 15>>
    /\ WordSelectors = <<2, 2, 15>>

\* the word written, when there is exactly one
TheWord == from_be_bytes(SubSeq(words, 1, 8))

\* C27: a word of selector s from 2 to 15 holds s in its bits 60 to 63 and
\* the value k in the bits k*B_s to (k+1)*B_s - 1, and for_each delivers the
\* N_s values in that order: the table of the decoder is that of the packing.
C27_WordLayout ==
    stage \in {"encoded", "decoded"} =>
        LET s == SelectorOf(Len(src))
            b == SELECTOR[s+1].bit
        IN  /\ Len(words) = 8
            /\ BitsToNatFrom(TheWord, 60, 64) = s
            /\ \A k \in 0..(Len(src) - 1) : \A i \in 1..b :
                    TheWord[k * b + i] = src[k + 1][i]
            /\ stage = "decoded" => delivered = src

\* seven values of eight bits, a different bit set in each, were packed with
\* selector 9 and delivered
C27_SevenDelivered ==
    /\ stage = "decoded" /\ Len(src) = 7
    /\ \A k \in 1..7 : src[k] = Pow2(k - 1, 64)
    /\ BitsToNatFrom(TheWord, 60, 64) = 9
    /\ delivered = src

\* the number of values of src in [arg.min, arg.max)
InRange == Cardinality({k \in 1..Len(src) : ~LtBits(src[k], arg.min) /\ LtBits(src[k], arg.max)})

\* C28: count_bytes_between returns the number of encoded values v with
\* min <= v < max, for every encoded array, runs of ones included, and every
\* min < max.
C28_CountBetween ==
    fn = "count_bytes_between" => (val.result = "ok" /\ val.count = InRange)

\* 240 ones were encoded and counted in [1, 2): none was found
C28_OnesNotCounted ==
    /\ fn = "count_bytes_between" /\ val.result = "ok"
    /\ Len(src) = 240 /\ \A k \in 1..240 : src[k] = U64(1)
    /\ arg.min = U64(1) /\ arg.max = U64(2)
    /\ val.count = 0

\* the values the words of bytes hold, in order: ones for a word of the
\* selectors 0 and 1, the fields of the word for the others
ValuesHeld(bytes) ==
    LET vs == for_each_values(bytes, 0)
    IN  [k \in 1..Len(vs) |->
            IF selector_at(bytes, vs[k].count) < 2 THEN U64(1) ELSE vs[k].val]

\* C29: the streaming Encoder takes any number of writes of values up to
\* 2^60 - 1, more than 240 included: no write aborts, bytes() returns Ok with
\* words that hold the values written, in order, and count_bytes of them is
\* the number of values written.
C29_StreamAccepts ==
    (fn = "bytes" /\ ~HoldsLarge) =>
        /\ val.result = "ok"
        /\ ValuesHeld(val.bytes) = src
        /\ count_bytes(val.bytes) = [ok |-> TRUE, count |-> Len(src)]

\* two zeros and 240 ones were written: 242 values, and a write aborted
C29_LongStreamAborts ==
    /\ fn = "bytes" /\ val.result = "panic"
    /\ src = <<U64(0), U64(0)>> \o RunOfOnes \o RunOfOnes

\* C30: the streaming Decoder iterates exactly the encoded values.  Over the
\* bytes of an encoding of n values no call aborts, the i-th call of next()
\* returns true for i <= n and the call after the n-th returns false, and
\* read() after the i-th true returns the i-th value; over fewer than 8 bytes
\* the first next() returns false.
C30_DecoderIterates ==
    /\ (fn \in {"next", "read"} /\ arg = words /\ val.nexts <= Len(src) + 1) =>
            val.result = "ok"
    /\ (fn = "next" /\ arg = words /\ val.nexts <= Len(src) + 1) =>
            (val.ret <=> val.nexts <= Len(src))
    /\ (fn = "read" /\ arg = words /\ val.nexts <= Len(src)) =>
            val.value = src[val.nexts]
    /\ (fn = "next" /\ Len(arg) < 8 /\ val.nexts = 1) => (val.result = "ok" /\ ~val.ret)

\* the single value 7 was encoded and the second call of next() returned true
C30_SecondNextTrue ==
    /\ fn = "next" /\ arg = words /\ src = <<U64(7)>>
    /\ val.nexts = 2 /\ val.ret

\* the number of samples the decoder took the last frame to hold
ActualSamples ==
    IF dec.encoded_samples < 0 \/ dec.encoded_samples > cfg.samples_per_message
    THEN cfg.samples_per_message ELSE dec.encoded_samples

\* C31: after a successful decode_to_buffer of a frame of n samples, out[0].t
\* is the start timestamp of the frame's header and out[k].t is k, the index
\* of the sample, for every 1 <= k < n.
C31_IndexTimestamps ==
    (op = "decode" /\ res = "ok") =>
        /\ dec.out[1].t = from_be_bytes(SubSeq(ret, 17, 24))
        /\ \A k \in 1..(ActualSamples - 1) : dec.out[k + 1].t = U64(k)

\* a message of three samples or more was decoded: the third sample was
\* encoded with a timestamp other than 2 and comes out with 2
C31_ThirdIsTwo ==
    /\ op = "decode" /\ res = "ok"
    /\ Len(msg) >= 3 /\ ActualSamples = Len(msg)
    /\ msg[3].t # U64(2) /\ dec.out[3].t = U64(2)
    /\ dec.out[1].t = msg[1].t /\ dec.out[1].t # U64(0)

\* C32: arithmetic mode wraps.  The subtraction of the spatial reference, the
\* subtractions of the encoder's cascade and the additions of the decoder are
\* taken modulo 2^32 without saturation and without abort: no encode and no
\* decode of an arithmetic stream aborts, and a complete message comes out of
\* the decoder with the values that were passed, whatever i32 they are.
C32_ArithmeticWraps ==
    ~cfg.use_xor =>
        /\ op = "encode" => ~enc.panic
        /\ (op = "decode" /\ CompleteMessage) =>
            /\ res = "ok"
            /\ \A k \in 1..Len(msg) : dec.out[k].i32s = msg[k].i32s

\* in a build that checks overflow, encode aborted on a sample whose
\* difference to the sample before it does not fit an i32
C32_SubtractionAborts ==
    /\ ~cfg.use_xor /\ cfg.checks /\ ~cfg.spatial
    /\ op = "encode" /\ enc.panic
    /\ Len(msg) >= 2
    /\ SubOverflows(msg[Len(msg)].i32s[1], msg[Len(msg) - 1].i32s[1])

\* value k of vs, the values of a frame's words in order, is the last of its word
LastOfWord(vs, k) == k = Len(vs) \/ vs[k + 1].count # vs[k].count

\* C33: in Simple-8b mode the words written for each variable of a frame hold
\* exactly as many values as the frame has samples: no word holds values of
\* two variables and none is padded.  There are at most N of them, none is
\* left out, and the decoder's stop after actual_samples * M values falls on
\* the last value of a word: it decodes the frame without error.
C33_WordsPerVariable ==
    /\ (FrameReturned /\ enc.using_simple8b /\ Len(msg) >= 1) =>
        LET n == Len(msg)
            vs == for_each_values(Body, 0)
        IN  /\ Len(vs) >= n * cfg.i32_count
            /\ \A i \in 1..cfg.i32_count :
                /\ LastOfWord(vs, n * i)
                /\ vs[n * i].count - (IF i = 1 THEN 0 ELSE vs[n * (i - 1)].count)
                        \in 1..cfg.samples_per_message
    /\ (enc.using_simple8b /\ op \in {"encode", "end_encode"}) => ~enc.panic
    /\ (enc.using_simple8b /\ op = "decode" /\ Len(msg) >= 1) => res = "ok"

\* a complete message of 17 samples of two variables was returned, with more
\* than one word for the first variable and other words for the second
C33_SeveralWords ==
    /\ FrameReturned /\ op = "encode" /\ enc.using_simple8b
    /\ cfg.i32_count = 2 /\ Len(msg) = 17
    /\ LET vs == for_each_values(Body, 0)
       IN  /\ vs[17].count > 1
           /\ vs[34].count > vs[17].count + 1
           /\ selector_at(Body, 1) # selector_at(Body, vs[17].count + 1)

\* the step ends a message: end_encode, the end_encode inside the encode of
\* the N-th sample, or cancel_encode
EndsMessage ==
    /\ ~enc'.panic
    /\ \/ op' \in {"end_encode", "cancel_encode"}
       \/ op' = "encode" /\ ret' # << >>

\* C34: every end_encode, explicit or inside the encode of the N-th sample,
\* and every cancel_encode switches the active buffer to its partner, from A
\* to B and from B to A.
C34_BufferSwitches == [][EndsMessage => enc'.use_buf_a = ~enc.use_buf_a]_vars

\* cancel_encode was called after the one frame of a stream with N = 1 was
\* returned, that is with buffer B active, and buffer B is still active
C34_CancelStaysOnB ==
    /\ op = "cancel_encode" /\ cfg.samples_per_message = 1
    /\ calls = 1 /\ "frame" \in history
    /\ ~enc.use_buf_a

\* the sum of the first k entries of a sequence of numbers
RECURSIVE SumFirst(_, _)
SumFirst(r, k) == IF k <= 0 THEN 0 ELSE r[k] + SumFirst(r, k - 1)

\* the offset in b after k varints that start at offset pos
RECURSIVE SkipVarints(_, _, _)
SkipVarints(b, pos, k) ==
    IF k <= 0 THEN pos
    ELSE SkipVarints(b, pos + uvarint32(SubSeq(b, pos + 1, Len(b)), FALSE).n, k - 1)

\* the runs of the (value, run) pairs read from offset pos of b up to the
\* first pair with run 0, and the offset after it; a run of -1 where b ends
\* before such a pair
RECURSIVE ReadRuns(_, _)
ReadRuns(b, pos) ==
    Bind(uvarint32(SubSeq(b, pos + 1, Len(b)), FALSE), LAMBDA v :
    Bind(uvarint32(SubSeq(b, pos + v.n + 1, Len(b)), FALSE), LAMBDA r :
        IF v.n = 0 \/ r.n = 0 THEN [runs |-> <<-1>>, next |-> pos]
        ELSE IF BitsToNat(r.val) = 0 THEN [runs |-> <<0>>, next |-> pos + v.n + r.n]
        ELSE Bind(ReadRuns(b, pos + v.n + r.n), LAMBDA rest :
                [runs |-> <<BitsToNat(r.val)>> \o rest.runs, next |-> rest.next])))

\* the pair lists of k variables read from offset pos of b
RECURSIVE ReadLists(_, _, _)
ReadLists(b, pos, k) ==
    IF k <= 0 THEN [lists |-> << >>, next |-> pos]
    ELSE Bind(ReadRuns(b, pos), LAMBDA l :
         Bind(ReadLists(b, l.next, k - 1), LAMBDA rest :
            [lists |-> <<l.runs>> \o rest.lists, next |-> rest.next]))

\* the offset in the body of the frame ret where the quality section starts
QualityOffset ==
    IF enc.using_simple8b
    THEN 8 * for_each_values(Body, 0)[Len(msg) * cfg.i32_count].count
    ELSE SkipVarints(Body, 0, Len(msg) * cfg.i32_count)

\* C35: the quality history.  While a message is accumulating, the runs of
\* every variable's history sum to encoded_samples, every run is at least 1
\* and adjacent pairs hold different values.  In every frame returned, the
\* pair list of each variable ends with a pair of run 0, no earlier pair has
\* run 0, the runs of the earlier pairs sum to less than the number of samples
\* of the frame, and the lists of the M variables are all that follows the
\* residuals.
C35_QualityHistory ==
    /\ (~enc.panic /\ enc.encoded_samples >= 1) =>
        \A i \in 1..cfg.i32_count :
            LET h == enc.quality_history[i]
            IN  /\ SumFirst([j \in 1..Len(h) |-> h[j].samples], Len(h)) = enc.encoded_samples
                /\ \A j \in 1..Len(h) : h[j].samples >= 1
                /\ \A j \in 1..(Len(h) - 1) : h[j].value # h[j + 1].value
    /\ FrameReturned =>
        /\ Len(msg) >= 1
        /\ \E q \in {ReadLists(Body, QualityOffset, cfg.i32_count)} :
            /\ q.next = Len(Body)
            /\ \A i \in 1..cfg.i32_count :
                LET r == q.lists[i]
                IN  /\ r[Len(r)] = 0
                    /\ \A j \in 1..(Len(r) - 1) : r[j] >= 1
                    /\ SumFirst(r, Len(r) - 1) < Len(msg)

\* end_encode without samples returned the count 0 and a pair (0, 0) for each
\* variable: the runs before the last pair sum to 0, the number of samples
C35_PairsWithoutSamples ==
    /\ op = "end_encode" /\ msg = << >>
    /\ ret = [k \in 1..(1 + 2 * cfg.i32_count) |-> 0]

\* the samples ss, each after the first stamped like the first
StampedLikeFirst(ss) == [k \in 1..Len(ss) |-> [ss[k] EXCEPT !.t = ss[1].t]]

\* C36: the timestamps of the samples after the first of a message do not
\* reach the frame, and samples out of order are accepted.  No encode aborts
\* on a timestamp, and every frame returned is byte for byte the frame of the
\* same values and qualities with every sample stamped like the first; so two
\* runs that agree on the values, the qualities and the first timestamp of
\* each message return the same frames.
C36_TimestampsIgnored ==
    /\ op \in {"encode", "end_encode"} => ~enc.panic
    /\ (FrameReturned /\ Len(msg) >= 1) =>
        ret = (IF op = "end_encode"
               THEN end_encode(FedEncoder(cfg, StampedLikeFirst(msg), Len(msg))).buf
               ELSE encode(FedEncoder(cfg, StampedLikeFirst(msg), Len(msg) - 1),
                           StampedLikeFirst(msg)[Len(msg)], cfg.checks).buf)

\* a frame was returned for a message whose second sample is stamped earlier
\* than its first
C36_OutOfOrder ==
    /\ FrameReturned /\ Len(msg) >= 3
    /\ msg[1].t = U64(258) /\ msg[2].t = U64(0) /\ msg[3].t = U64(258)
    /\ SubSeq(ret, 17, 24) = to_be_bytes(U64(258))

\* the samples ss with every variable other than i (from 1) and the variable
\* it refers to set to zero
OnlyVariable(ss, i) ==
    [k \in 1..Len(ss) |->
        [ss[k] EXCEPT !.i32s = [v \in 1..Len(ss[k].i32s) |->
            IF v = i \/ v = enc.spatial_ref[i] + 1 THEN ss[k].i32s[v] ELSE 0]]]

\* C37: the residuals staged for a variable in a message depend only on the
\* values of that variable and of the variable it refers to: they are the
\* residuals staged for the message with every other variable set to zero,
\* although the scratch vector delta_n is shared by the variables.
C37_VariablesIndependent ==
    (op = "encode" /\ ~enc.panic /\ Len(msg) >= 1) =>
        \A i \in 1..cfg.i32_count : \A k \in 1..Len(msg) :
            LET e == FedEncoder(cfg, OnlyVariable(msg, i), Len(msg))
            IN  Staged(k, i) = (IF e.using_simple8b THEN e.diffs[i][k] ELSE e.values[k][i])

\* the fourth sample of a message of two variables was staged: the second
\* variable's residual is a third difference other than that of the first
C37_AfterOtherVariable ==
    /\ op = "encode" /\ ~enc.panic /\ cfg.i32_count = 2 /\ Len(msg) = 4
    /\ Staged(4, 1) # 0 /\ Staged(4, 2) # 0
    /\ Staged(4, 1) # Staged(4, 2)
    /\ Staged(4, 2) = AsStaged(Difference(3, 4, 2))

\* the call of decode_to_buffer is over: it returned or it aborted
CallOver == fn = "decode_to_buffer" /\ val.pc \in {"returned", "aborted"}

\* C38: decode_to_buffer terminates on every payload: the loop over the
\* varints and the iteration over the Simple-8b words come to the end of
\* their input, and every pass of the quality loop moves sample_number on by
\* a run of 1 or more or ends the variable on a run of 0, also when the
\* payload is exhausted and uvarint32 yields (0, 0).
C38_Terminates == <>CallOver

\* the call returned on a payload that ends before the quality pairs of
\* two samples or more: the reads past its end ended the variables
C38_ExhaustedReturns ==
    /\ fn = "decode_to_buffer" /\ val.pc = "returned"
    /\ arg.actual_samples >= 2 /\ Len(arg.body) = 1
    /\ val.length = Len(arg.body)

\* the Simple-8b words of the variables i, i+1, ... as encode_all packs the
\* first n values staged for each, or << >> where it fails for one of them
RECURSIVE StagedBlocks(_, _)
StagedBlocks(i, n) ==
    IF i > Len(enc.diffs) THEN << >>
    ELSE LET r == encode_all(SubSeq(enc.diffs[i], 1, n))
         IN  IF ~r.ok \/ r.words = << >> THEN << >>
             ELSE words_to_bytes(r.words) \o StagedBlocks(i + 1, n)

\* C39: inside the Encoder the Simple-8b packing cannot fail.  Every value
\* staged in diffs is below 2^32, so encode_all_ref returns Ok for the slice
\* of every variable, with at least one word when there is a sample and
\* never more words than simple8b_values holds; and a frame returned carries
\* the words of all its variables, none dropped, before the quality pairs.
C39_PackingCannotFail ==
    enc.using_simple8b =>
        /\ \A i \in 1..Len(enc.diffs) : \A k \in 1..Len(enc.diffs[i]) :
                ~AtLeastPow2(enc.diffs[i][k], 32)
        /\ \A i \in 1..Len(enc.diffs) :
            LET n == IF enc.encoded_samples < enc.samples_per_message
                     THEN enc.encoded_samples ELSE enc.samples_per_message
                r == encode_all_ref(enc.simple8b_values, SubSeq(enc.diffs[i], 1, n))
            IN  /\ r.ok /\ ~r.panic
                /\ n >= 1 => r.n >= 1
        /\ (FrameReturned /\ Len(msg) >= 1) =>
            LET b == StagedBlocks(1, Len(msg))
            IN  /\ Len(b) >= 8 * cfg.i32_count
                /\ Len(Body) > Len(b)
                /\ SubSeq(Body, 1, Len(b)) = b

\* a frame was returned whose variable has a residual of i32::MIN staged:
\* its zig-zag is 2^32 - 1, the greatest value the encoder stages, and it
\* fills a word of its own
C39_WidestResidual ==
    /\ FrameReturned /\ enc.using_simple8b /\ Len(msg) >= 2
    /\ \E k \in 1..Len(msg) :
        /\ enc.diffs[1][k] = Ones(32, 64)
        /\ simple8b_encode(<<enc.diffs[1][k]>>).ok
        /\ simple8b_encode(SubSeq(enc.diffs[1], k, Len(msg))).n = 1

====
